---- MODULE Spec2Model ----
(***************************************************************************)
(* Model of the ImpactAnalysis core engine (src/core): domain-entity       *)
(* inference, business-rule extraction with confidence scoring, and impact *)
(* simulation over the derived relation graph.                             *)
(*                                                                         *)
(* Conventions.                                                            *)
(*  - A JavaScript string is a sequence of tokens (short atoms such as     *)
(*    "Order", ".", "ship", "/", ".ts").  Concatenation is \o, and         *)
(*    includes / endsWith / toLowerCase work on the token                  *)
(*    sequence.  The token alphabet is chosen so that every pattern the    *)
(*    code searches for starts and ends on a token boundary.  The empty    *)
(*    sequence stands both for "" and for undefined: the code only tests   *)
(*    such optional strings for truthiness.                                *)
(*  - A JavaScript number that is not an integer is an exact rational      *)
(*    [n, d] in lowest terms.  The rounding error of the IEEE doubles is   *)
(*    not modelled; it is below 1e-15 in every sum formed here.            *)
(***************************************************************************)
EXTENDS Integers, Sequences, FiniteSets, TLC

VARIABLES
    pc,           \* position of the call under study
    confRule,     \* calculateConfidence: argument rule
    confContext,  \* calculateConfidence: argument context
    confidence,   \* calculateConfidence: returned value
    simRuleId,    \* ImpactSimulationEngine.simulate: argument ruleId
    simInput,     \* ImpactSimulationEngine.simulate: argument input
    simulation,   \* ImpactSimulationEngine.simulate: returned result
    thrown,       \* message of the Error thrown by the call, <<>> if none
    project,      \* CoreEngine: the parsed source tree
    semantic,     \* CoreEngine: semantic.nodes
    domainModel,  \* CoreEngine: result of DomainModelBuilder.build
    rules,        \* CoreEngine: result of BusinessRuleEngine.extract
    fileSystem,   \* CodeParser: the directory tree under projectPath
    violations,   \* CoreEngine: result of ArchitecturalAnalyzer.analyze
    report,       \* CoreEngine.analyze: the report of the call
    previousReport, \* the report of the call of analyze before this one
    serviceGraph, \* service ImpactSimulationEngine: nodes and edges
    changedNodeId, \* service ImpactSimulationEngine.simulate: the request
    impactReport, \* service ImpactSimulationEngine.simulate: returned report
    traversalRoot, \* GraphTraversal.impactedSubgraph: argument rootNodeId
    traversal,    \* GraphTraversal: queue, visited, direct, indirect, maxDepth
    traversalResult \* GraphTraversal.impactedSubgraph: returned value

vars == <<pc, confRule, confContext, confidence, simRuleId, simInput,
          simulation, thrown, project, semantic, domainModel, rules,
          fileSystem, violations, report, previousReport,
          serviceGraph, changedNodeId, impactReport,
          traversalRoot, traversal, traversalResult>>

\* The value of a record-valued variable that holds nothing (null, undefined
\* or not yet computed); a string or list that is absent is <<>>.
None == [none |-> TRUE]

(***************************************************************************)
(* Strings as token sequences                                              *)
(***************************************************************************)

\* The tokens that have an upper-case letter, with their lower-case form.
UpperCaseTokens ==
    [Order |-> "order", Pricing |-> "pricing", Invoice |-> "invoice",
     Controller |-> "controller", Service |-> "service",
     Repository |-> "repository", Adapter |-> "adapter",
     Gateway |-> "gateway", Date |-> "date",
     STATE_TRANSITION |-> "state_transition", INVARIANT |-> "invariant",
     POLICY |-> "policy", CALCULATION |-> "calculation",
     CONTEXT_RESTRICTION |-> "context_restriction"]

toLowerCase(s) ==
    [i \in 1..Len(s) |->
        IF s[i] \in DOMAIN UpperCaseTokens THEN UpperCaseTokens[s[i]] ELSE s[i]]

includes(s, pat) ==
    \E i \in 0..(Len(s) - Len(pat)) :
        \A j \in 1..Len(pat) : s[i + j] = pat[j]

endsWith(s, pat) ==
    /\ Len(pat) <= Len(s)
    /\ \A j \in 1..Len(pat) : s[Len(s) - Len(pat) + j] = pat[j]

\* Number.prototype.toString for a non-negative integer: its decimal digits.
DigitTokens == <<"0", "1", "2", "3", "4", "5", "6", "7", "8", "9">>

RECURSIVE numberToString(_)
numberToString(n) ==
    IF n < 10 THEN <<DigitTokens[n + 1]>>
    ELSE numberToString(n \div 10) \o <<DigitTokens[(n % 10) + 1]>>

(***************************************************************************)
(* Numbers                                                                 *)
(***************************************************************************)

Abs(x) == IF x < 0 THEN -x ELSE x

RECURSIVE Gcd(_, _)
Gcd(a, b) == IF b = 0 THEN a ELSE Gcd(b, a % b)

\* The rational n/d (d > 0) in lowest terms.
Rat(n, d) ==
    LET g == Gcd(Abs(n), d) IN [n |-> n \div g, d |-> d \div g]

\* A decimal literal of the source with two decimals: Dec(25) is 0.25.
Dec(h) == Rat(h, 100)

RAdd(a, b) == Rat(a.n * b.d + b.n * a.d, a.d * b.d)
RSub(a, b) == Rat(a.n * b.d - b.n * a.d, a.d * b.d)
RMul(a, b) == Rat(a.n * b.n, a.d * b.d)
RLeq(a, b) == a.n * b.d <= b.n * a.d
RLt(a, b) == a.n * b.d < b.n * a.d
RMin(a, b) == IF RLeq(a, b) THEN a ELSE b
RMax(a, b) == IF RLeq(a, b) THEN b ELSE a

\* x is a whole number of hundredths.
IsHundredths(x) == (100 * x.n) % x.d = 0

\* 0 <= x <= 1
InUnitInterval(x) == RLeq(Dec(0), x) /\ RLeq(x, Dec(100))

\* A faulty round2 that returns its argument unrounded.
round2_identity(value) == value

\* Number(value.toFixed(2)): the nearest multiple of 0.01, a tie going away
\* from zero.
round2(value) ==
    LET a == Abs(value.n)
        q == (200 * a + value.d) \div (2 * value.d)
    IN  Rat(IF value.n < 0 THEN -q ELSE q, 100)

(***************************************************************************)
(* Confidence (rules/confidence)                                           *)
(***************************************************************************)

RuleTypes ==
    {"INVARIANT", "POLICY", "CALCULATION", "STATE_TRANSITION",
     "CONTEXT_RESTRICTION"}

ContextFlags ==
    {"inDomainEntity", "mutatesStateField", "hasExplicitThrow",
     "inPublicMethod", "usesStateEnum", "outsideControllerInfra",
     "strongStructuralPattern", "inController", "isolatedCalculation"}

\* A faulty calculateConfidence that omits the final clamp to [0, 1].
calculateConfidence_noClamp(rule, context) ==
    LET c1 == IF context.inDomainEntity THEN Dec(25) ELSE Dec(0)
        c2 == IF context.mutatesStateField THEN RAdd(c1, Dec(25)) ELSE c1
        c3 == IF context.hasExplicitThrow THEN RAdd(c2, Dec(15)) ELSE c2
        c4 == IF context.inPublicMethod THEN RAdd(c3, Dec(10)) ELSE c3
        c5 == IF context.usesStateEnum THEN RAdd(c4, Dec(10)) ELSE c4
        c6 == IF context.outsideControllerInfra THEN RAdd(c5, Dec(10)) ELSE c5
        c7 == IF context.strongStructuralPattern THEN RAdd(c6, Dec(5)) ELSE c6
        c8 == IF ~context.inDomainEntity THEN RMin(c7, Dec(60)) ELSE c7
        c9 == IF context.inController THEN RSub(c8, Dec(20)) ELSE c8
        c10 == IF rule.type = "CALCULATION" /\ context.isolatedCalculation
               THEN RMin(c9, Dec(70)) ELSE c9
    IN  round2(c10)

\* A faulty calculateConfidence that subtracts the controller penalty before
\* the cap of a rule outside a domain entity.
calculateConfidence_penaltyFirst(rule, context) ==
    LET c1 == IF context.inDomainEntity THEN Dec(25) ELSE Dec(0)
        c2 == IF context.mutatesStateField THEN RAdd(c1, Dec(25)) ELSE c1
        c3 == IF context.hasExplicitThrow THEN RAdd(c2, Dec(15)) ELSE c2
        c4 == IF context.inPublicMethod THEN RAdd(c3, Dec(10)) ELSE c3
        c5 == IF context.usesStateEnum THEN RAdd(c4, Dec(10)) ELSE c4
        c6 == IF context.outsideControllerInfra THEN RAdd(c5, Dec(10)) ELSE c5
        c7 == IF context.strongStructuralPattern THEN RAdd(c6, Dec(5)) ELSE c6
        c8 == IF context.inController THEN RSub(c7, Dec(20)) ELSE c7
        c9 == IF ~context.inDomainEntity THEN RMin(c8, Dec(60)) ELSE c8
        c10 == IF rule.type = "CALCULATION" /\ context.isolatedCalculation
               THEN RMin(c9, Dec(70)) ELSE c9
    IN  round2(RMax(Dec(0), RMin(Dec(100), c10)))

calculateConfidence(rule, context) ==
    LET c1 == IF context.inDomainEntity THEN Dec(25) ELSE Dec(0)
        c2 == IF context.mutatesStateField THEN RAdd(c1, Dec(25)) ELSE c1
        c3 == IF context.hasExplicitThrow THEN RAdd(c2, Dec(15)) ELSE c2
        c4 == IF context.inPublicMethod THEN RAdd(c3, Dec(10)) ELSE c3
        c5 == IF context.usesStateEnum THEN RAdd(c4, Dec(10)) ELSE c4
        c6 == IF context.outsideControllerInfra THEN RAdd(c5, Dec(10)) ELSE c5
        c7 == IF context.strongStructuralPattern THEN RAdd(c6, Dec(5)) ELSE c6
        c8 == IF ~context.inDomainEntity THEN RMin(c7, Dec(60)) ELSE c7
        c9 == IF context.inController THEN RSub(c8, Dec(20)) ELSE c8
        c10 == IF rule.type = "CALCULATION" /\ context.isolatedCalculation
               THEN RMin(c9, Dec(70)) ELSE c9
    IN  round2(RMax(Dec(0), RMin(Dec(100), c10)))

(***************************************************************************)
(* Map and Set of the JavaScript runtime                                   *)
(***************************************************************************)

\* A Map is its keys in insertion order and the value of each key.
EmptyMap == [keys |-> <<>>, val |-> <<>>]

MapHas(m, k) == \E i \in 1..Len(m.keys) : m.keys[i] = k

\* Map.prototype.set: a new key goes last, a known key keeps its place and
\* takes the new value.
MapSet(m, k, v) ==
    IF MapHas(m, k)
    THEN [keys |-> m.keys,
          val |-> [i \in 1..Len(m.keys) |->
                      IF m.keys[i] = k THEN v ELSE m.val[i]]]
    ELSE [keys |-> Append(m.keys, k), val |-> Append(m.val, v)]

\* Map.prototype.get; None stands for undefined.
MapGet(m, k) ==
    IF MapHas(m, k)
    THEN m.val[CHOOSE i \in 1..Len(m.keys) : m.keys[i] = k]
    ELSE None

\* [...map.values()]
MapValues(m) == m.val

\* new Map(entries), entries given as a sequence of <<key, value>>.
RECURSIVE MapFromEntries(_, _)
MapFromEntries(entries, m) ==
    IF entries = <<>> THEN m
    ELSE MapFromEntries(Tail(entries),
                        MapSet(m, Head(entries)[1], Head(entries)[2]))

\* The set of the elements of a sequence.
Range(s) == {s[i] : i \in 1..Len(s)}

\* Math.max over a set of integers together with a floor.
MaxWith(floor, S) ==
    IF S = {} THEN floor
    ELSE LET m == CHOOSE x \in S : \A y \in S : y <= x
         IN  IF m > floor THEN m ELSE floor

(***************************************************************************)
(* String order used by Array.prototype.sort                               *)
(***************************************************************************)

\* The collation order of the tokens: punctuation, digits, then words.
TokenOrder ==
    <<"#", ".", "/", ":", "\\", "<anonymous>",
      "0", "1", "2", "3", "4", "5", "6", "7", "8", "9",
      "adapter", "Adapter", "base", "calculation", "CALCULATION", "cancel",
      "context_restriction", "CONTEXT_RESTRICTION", "controller",
      "Controller", "customer", "date", "Date", "db", "domain", "gateway",
      "Gateway", "infra", "invariant", "INVARIANT", "invoice", "Invoice", "legacy",
      "now", "order", "Order", "policy", "POLICY", "pricing", "Pricing",
      "quote", "repo", "repository", "Repository", "save", "service",
      "Service", "ship", "src", "state_transition", "STATE_TRANSITION",
      "status", "this", "tier", "total", ".ts", ".tsx", "unknown">>

TokenRank(t) == CHOOSE i \in 1..Len(TokenOrder) : TokenOrder[i] = t

\* a.localeCompare(b): negative, zero or positive.
RECURSIVE localeCompare(_, _)
localeCompare(a, b) ==
    IF a = <<>> THEN (IF b = <<>> THEN 0 ELSE -1)
    ELSE IF b = <<>> THEN 1
    ELSE IF Head(a) = Head(b) THEN localeCompare(Tail(a), Tail(b))
    ELSE IF TokenRank(Head(a)) < TokenRank(Head(b)) THEN -1 ELSE 1

\* ids.sort((a, b) => a.localeCompare(b)) for pairwise distinct ids.
RECURSIVE sortByLocaleCompare(_)
sortByLocaleCompare(S) ==
    IF S = {} THEN <<>>
    ELSE LET m == CHOOSE x \in S : \A y \in S : localeCompare(x, y) <= 0
         IN  <<m>> \o sortByLocaleCompare(S \ {m})

(***************************************************************************)
(* Impact simulation (impact/index)                                        *)
(***************************************************************************)

\* Traversal stops expanding at this depth.
MaxTraversalDepth == 5

normalize(value, max) ==
    IF max <= 0 THEN Dec(0)
    ELSE RMax(Dec(0), RMin(Dec(100), Rat(value, max)))

isFileLike_extensionOnly(nodeId) ==
    LET lower == toLowerCase(nodeId)
    IN  endsWith(lower, <<".ts">>) \/ endsWith(lower, <<".tsx">>)

isFileLike(nodeId) ==
    LET lower == toLowerCase(nodeId)
    IN  \/ includes(lower, <<"/">>)
        \/ includes(lower, <<"\\">>)
        \/ endsWith(lower, <<".ts">>)
        \/ endsWith(lower, <<".tsx">>)

isEntityLike(nodeId, entities) == MapHas(entities, nodeId)

isMethodLike(nodeId) == includes(nodeId, <<".">>) \/ includes(nodeId, <<"#">>)

nodeType(nodeId, graph, rootRuleId) ==
    IF nodeId = rootRuleId \/ MapHas(graph.rules, nodeId) THEN "RULE"
    ELSE IF isEntityLike(nodeId, graph.entities) THEN "ENTITY"
    ELSE IF isFileLike(nodeId) THEN "FILE"
    ELSE IF isMethodLike(nodeId) THEN "METHOD" ELSE "METHOD"

stateMutationWeight(rule) ==
    CASE rule.type = "STATE_TRANSITION" -> Dec(100)
      [] rule.type = "INVARIANT" -> Dec(90)
      [] rule.type = "POLICY" -> Dec(70)
      [] rule.type = "CALCULATION" -> Dec(60)
      [] rule.type = "CONTEXT_RESTRICTION" -> Dec(50)
      [] OTHER -> Dec(50)

crossLayerViolationWeight(rule) ==
    LET path == toLowerCase(rule.filePath)
    IN  IF includes(path, <<"controller">>) THEN Dec(100)
        ELSE IF includes(path, <<"service">>) THEN Dec(70)
        ELSE IF rule.entity # <<>> THEN Dec(20)
        ELSE Dec(100)

buildGraph(input) ==
    [entities |->
        MapFromEntries([i \in 1..Len(input.domainEntities) |->
            <<input.domainEntities[i].name, input.domainEntities[i]>>],
            EmptyMap),
     rules |->
        MapFromEntries([i \in 1..Len(input.businessRules) |->
            <<input.businessRules[i].id, input.businessRules[i]>>],
            EmptyMap),
     relations |-> input.domainRelations]

\* The edge types the traversal follows.
TraversedTypes == {"CALLS", "DEPENDS_ON", "MODIFIES"}

getOutgoingDependencies(graph, nodeId) ==
    SelectSeq(graph.relations, LAMBDA relation : relation.from = nodeId)

getIncomingDependencies(graph, nodeId) ==
    SelectSeq(graph.relations, LAMBDA relation : relation.to = nodeId)

getFanOut(graph, nodeId) ==
    Cardinality({relation.to :
                    relation \in Range(getOutgoingDependencies(graph, nodeId))})

getFanIn(graph, nodeId) ==
    Cardinality({relation.from :
                    relation \in Range(getIncomingDependencies(graph, nodeId))})

RECURSIVE expandRelations_noVisitedCheck(_, _, _)
expandRelations_noVisitedCheck(out, current, st) ==
    IF out = <<>> THEN st
    ELSE LET relation == Head(out)
             nextId == relation.to
         IN  IF relation.type \notin {"CALLS", "DEPENDS_ON", "MODIFIES"}
             THEN expandRelations_noVisitedCheck(Tail(out), current, st)
             ELSE expandRelations_noVisitedCheck(Tail(out), current,
                    [queue |-> Append(st.queue,
                                      [id |-> nextId, depth |-> current.depth + 1]),
                     visited |-> st.visited \cup {nextId},
                     order |-> Append(st.order, nextId),
                     direct |-> IF current.depth = 0
                                THEN st.direct \cup {nextId} ELSE st.direct,
                     indirect |-> IF current.depth = 0
                                  THEN st.indirect
                                  ELSE st.indirect \cup {nextId},
                     maxDepth |-> st.maxDepth])

\* The for loop over the outgoing relations of the dequeued node: st is the
\* traversal state [queue, visited, order, direct, indirect, maxDepth];
\* order lists visited in insertion order.
RECURSIVE expandRelations(_, _, _)
expandRelations(out, current, st) ==
    IF out = <<>> THEN st
    ELSE LET relation == Head(out)
             nextId == relation.to
         IN  IF relation.type \notin TraversedTypes \/ nextId \in st.visited
             THEN expandRelations(Tail(out), current, st)
             ELSE expandRelations(Tail(out), current,
                    [queue |-> Append(st.queue,
                                      [id |-> nextId, depth |-> current.depth + 1]),
                     visited |-> st.visited \cup {nextId},
                     order |-> Append(st.order, nextId),
                     direct |-> IF current.depth = 0
                                THEN st.direct \cup {nextId} ELSE st.direct,
                     indirect |-> IF current.depth = 0
                                  THEN st.indirect
                                  ELSE st.indirect \cup {nextId},
                     maxDepth |-> st.maxDepth])

traverseStep_noDepthLimit(graph, st) ==
    LET current == Head(st.queue)
        popped == [st EXCEPT !.queue = Tail(st.queue),
                             !.maxDepth = IF current.depth > st.maxDepth
                                          THEN current.depth
                                          ELSE st.maxDepth]
    IN  expandRelations(getOutgoingDependencies(graph, current.id),
                        current, popped)

\* One iteration of the while loop of getCallDepth and impactedSubgraph: the
\* head of the queue is shifted, maxDepth updated and, below the depth limit,
\* the outgoing relations of the node expanded.
traverseStep(graph, st) ==
    LET current == Head(st.queue)
        popped == [st EXCEPT !.queue = Tail(st.queue),
                             !.maxDepth = IF current.depth > st.maxDepth
                                          THEN current.depth
                                          ELSE st.maxDepth]
    IN  IF current.depth >= MaxTraversalDepth
        THEN popped
        ELSE expandRelations(getOutgoingDependencies(graph, current.id),
                             current, popped)

\* The while loop of getCallDepth and impactedSubgraph.
RECURSIVE traverse(_, _)
traverse(graph, st) ==
    IF st.queue = <<>> THEN st
    ELSE traverse(graph, traverseStep(graph, st))

traversalStart(nodeId) ==
    [queue |-> <<[id |-> nodeId, depth |-> 0]>>,
     visited |-> {nodeId},
     order |-> <<nodeId>>,
     direct |-> {},
     indirect |-> {},
     maxDepth |-> 0]

getCallDepth(graph, nodeId) == traverse(graph, traversalStart(nodeId)).maxDepth

\* The value impactedSubgraph returns once the queue is empty.
subgraphOf(st) ==
    [directFanOut |-> Cardinality(st.direct),
     indirectFanOut |-> Cardinality(st.indirect),
     impactedNodeIds |-> st.visited,
     callDepth |-> st.maxDepth]

impactedSubgraph(graph, rootNodeId) ==
    subgraphOf(traverse(graph, traversalStart(rootNodeId)))

resolveRootNode(rule) ==
    IF rule.entity # <<>> /\ rule.method # <<>>
    THEN rule.entity \o <<".">> \o rule.method
    ELSE IF rule.method # <<>> THEN rule.filePath \o <<"#">> \o rule.method
    ELSE IF rule.entity # <<>> THEN rule.entity
    ELSE rule.id

entityCriticalityWeight(entityName, ruleList, graph) ==
    IF entityName = <<>> THEN Dec(100)
    ELSE LET rulesOf(name) ==
                 Len(SelectSeq(ruleList, LAMBDA rule : rule.entity = name))
             entityNames == Range(graph.entities.keys)
             entityRules == rulesOf(entityName)
             maxRulesPerEntity ==
                 MaxWith(1, {rulesOf(name) : name \in entityNames})
             fanIn == getFanIn(graph, entityName)
             maxFanIn ==
                 MaxWith(1, {getFanIn(graph, name) : name \in entityNames})
         IN  round2(RMul(RAdd(normalize(entityRules, maxRulesPerEntity),
                              normalize(fanIn, maxFanIn)),
                         Rat(1, 2)))

crossLayerViolationsCount(impactedNodeIds) ==
    Cardinality({nodeId \in impactedNodeIds :
        LET lower == toLowerCase(nodeId)
        IN  includes(lower, <<"controller">>) \/ includes(lower, <<"infra">>)})

\* A faulty score that omits the floor of a rule without an owning entity.
globalRiskScore_noFloor(fanOutWeight, callDepthWeight, mutationWeight, layerWeight, criticalityWeight, rootRule) ==
    LET sum ==
            RAdd(RMul(fanOutWeight, Dec(25)),
            RAdd(RMul(callDepthWeight, Dec(15)),
            RAdd(RMul(mutationWeight, Dec(20)),
            RAdd(RMul(layerWeight, Dec(20)),
                 RMul(criticalityWeight, Dec(20))))))
    IN  round2(RMax(Dec(0), RMin(Dec(100), sum)))

\* The weighted sum, the floor for a rule without an owning entity, the
\* clamp and the rounding.
globalRiskScore(fanOutWeight, callDepthWeight, mutationWeight, layerWeight, criticalityWeight, rootRule) ==
    LET sum ==
            RAdd(RMul(fanOutWeight, Dec(25)),
            RAdd(RMul(callDepthWeight, Dec(15)),
            RAdd(RMul(mutationWeight, Dec(20)),
            RAdd(RMul(layerWeight, Dec(20)),
                 RMul(criticalityWeight, Dec(20))))))
        floored == IF rootRule.entity = <<>> THEN RMax(sum, Dec(85)) ELSE sum
    IN  round2(RMax(Dec(0), RMin(Dec(100), floored)))

\* A faulty list that does not take the root rule's id out of the rest.
impactedNodes_noFilter(rootRule, impactedNodeIds, graph, score) ==
    <<[id |-> rootRule.id, type |-> "RULE", riskScore |-> score]>> \o
    LET sorted == sortByLocaleCompare(impactedNodeIds)
    IN  [i \in 1..Len(sorted) |->
            [id |-> sorted[i],
             type |-> nodeType(sorted[i], graph, rootRule.id),
             riskScore |-> score]]

\* The root rule, then the other impacted identifiers in sorted order.
impactedNodes(rootRule, impactedNodeIds, graph, score) ==
    <<[id |-> rootRule.id, type |-> "RULE", riskScore |-> score]>> \o
    LET sorted ==
            sortByLocaleCompare({id \in impactedNodeIds : id # rootRule.id})
    IN  [i \in 1..Len(sorted) |->
            [id |-> sorted[i],
             type |-> nodeType(sorted[i], graph, rootRule.id),
             riskScore |-> score]]

\* A faulty message that leaves the rule id out.
ruleNotFound_anonymous(ruleId) == <<"Rule not found">>

\* The message of the Error thrown for an unknown rule id.
ruleNotFound(ruleId) == <<"Rule not found: ">> \o ruleId

\* ImpactSimulationEngine.simulate: error is the message of the Error it
\* throws (<<>> when it returns), result what it returns (None when it
\* throws).
simulate(ruleId, input) ==
    LET graph == buildGraph(input)
        rootRule == MapGet(graph.rules, ruleId)
    IN  IF rootRule = None
        THEN [error |-> ruleNotFound(ruleId), result |-> None]
        ELSE
        LET rootNodeId == resolveRootNode(rootRule)
            subgraph == impactedSubgraph(graph, rootNodeId)
            withEntity ==
                IF rootRule.entity # <<>>
                THEN subgraph.impactedNodeIds \cup {rootRule.entity}
                ELSE subgraph.impactedNodeIds
            impactedNodeIds ==
                IF rootRule.method # <<>> /\ rootRule.entity # <<>>
                THEN withEntity \cup
                     {rootRule.entity \o <<".">> \o rootRule.method}
                ELSE withEntity
            projectNodeIds ==
                UNION {{relation.from, relation.to} :
                          relation \in Range(graph.relations)}
            maxFanOut ==
                MaxWith(1, {getFanOut(graph, id) : id \in projectNodeIds})
            maxCallDepth ==
                MaxWith(1, {getCallDepth(graph, id) : id \in projectNodeIds})
            fanOut == subgraph.directFanOut + subgraph.indirectFanOut
            callDepth == subgraph.callDepth
            score ==
                globalRiskScore(
                    normalize(fanOut, maxFanOut),
                    normalize(callDepth, maxCallDepth),
                    stateMutationWeight(rootRule),
                    crossLayerViolationWeight(rootRule),
                    entityCriticalityWeight(rootRule.entity,
                                            input.businessRules, graph),
                    rootRule)
            affectedFiles ==
                {nodeId \in impactedNodeIds : isFileLike(nodeId)} \cup
                (IF rootRule.filePath # <<>> THEN {rootRule.filePath} ELSE {})
            affectedEntities ==
                {nodeId \in impactedNodeIds : MapHas(graph.entities, nodeId)}
                \cup (IF rootRule.entity # <<>> THEN {rootRule.entity} ELSE {})
        IN  [error |-> <<>>,
             result |->
                [rootRule |-> rootRule,
                 impactedNodes |->
                    impactedNodes(rootRule, impactedNodeIds, graph, score),
                 globalRiskScore |-> score,
                 explanation |->
                    [fanOut |-> fanOut,
                     callDepth |-> callDepth,
                     affectedFiles |-> Cardinality(affectedFiles),
                     affectedEntities |-> Cardinality(affectedEntities),
                     crossLayerViolations |->
                        crossLayerViolationsCount(impactedNodeIds)]]]

(***************************************************************************)
(* Syntax trees (ts-morph)                                                 *)
(*                                                                         *)
(* The tree of a project is a table of nodes in document order.  A node    *)
(* refers to its parent and to its named children by their index in the    *)
(* table; index 0 is the source file, or an absent child.  start and end   *)
(* are the offsets getStart() and getEnd() within the file.                *)
(***************************************************************************)

Node(kind, parent, start, end, name, expr, text, op, left, expression, thenStatement, elseStatement) ==
    [kind |-> kind, parent |-> parent, start |-> start, end |-> end,
     name |-> name, expr |-> expr, text |-> text, op |-> op,
     left |-> left, expression |-> expression,
     thenStatement |-> thenStatement, elseStatement |-> elseStatement,
     flags |-> {}, params |-> <<>>, file |-> <<>>]

\* The statements a method body is made of, each with the nodes of its own
\* tree: offsets and indices are relative to the statement, and parent 0 is
\* the enclosing method.

\* this.status = "SHIPPED";
assignState ==
    [width |-> 24,
     nodes |-> <<
        Node("BinaryExpression", 0, 0, 23, <<>>, <<>>,
             <<"this.status = \"SHIPPED\"">>, "=", 2, 0, 0, 0),
        Node("PropertyAccessExpression", 1, 0, 11, <<"status">>, <<"this">>,
             <<"this.status">>, "", 0, 0, 0, 0),
        Node("Identifier", 2, 5, 11, <<"status">>, <<>>,
             <<"status">>, "", 0, 0, 0, 0)>>]

\* this.total += base * 2;
compoundTotal ==
    [width |-> 23,
     nodes |-> <<
        Node("BinaryExpression", 0, 0, 22, <<>>, <<>>,
             <<"this.total += base * 2">>, "+=", 2, 0, 0, 0),
        Node("PropertyAccessExpression", 1, 0, 10, <<"total">>, <<"this">>,
             <<"this.total">>, "", 0, 0, 0, 0),
        Node("Identifier", 2, 5, 10, <<"total">>, <<>>,
             <<"total">>, "", 0, 0, 0, 0),
        Node("BinaryExpression", 1, 14, 22, <<>>, <<>>,
             <<"base * 2">>, "*", 5, 0, 0, 0),
        Node("Identifier", 4, 14, 18, <<"base">>, <<>>,
             <<"base">>, "", 0, 0, 0, 0),
        Node("NumericLiteral", 4, 21, 22, <<>>, <<>>,
             <<"2">>, "", 0, 0, 0, 0)>>]

\* repo.save(this);
callRepo ==
    [width |-> 16,
     nodes |-> <<
        Node("CallExpression", 0, 0, 15, <<>>, <<"repo", ".", "save">>,
             <<"repo.save(this)">>, "", 0, 0, 0, 0),
        Node("PropertyAccessExpression", 1, 0, 9, <<"save">>, <<"repo">>,
             <<"repo.save">>, "", 0, 0, 0, 0),
        Node("Identifier", 2, 0, 4, <<"repo">>, <<>>,
             <<"repo">>, "", 0, 0, 0, 0),
        Node("Identifier", 2, 5, 9, <<"save">>, <<>>,
             <<"save">>, "", 0, 0, 0, 0)>>]

\* throw new Error("x");
throwError ==
    [width |-> 21,
     nodes |-> <<
        Node("ThrowStatement", 0, 0, 21, <<>>, <<>>,
             <<"throw new Error(\"x\");">>, "", 0, 0, 0, 0),
        Node("NewExpression", 1, 6, 20, <<>>, <<"Error">>,
             <<"new Error(\"x\")">>, "", 0, 0, 0, 0),
        Node("Identifier", 2, 10, 15, <<"Error">>, <<>>,
             <<"Error">>, "", 0, 0, 0, 0)>>]

\* if (this.status === "SHIPPED") throw new Error("x");
guardThrowBare ==
    [width |-> 52,
     nodes |-> <<
        Node("IfStatement", 0, 0, 52, <<>>, <<>>,
             <<"if (this.status === \"SHIPPED\") throw new Error(\"x\");">>, "", 0, 2, 5, 0),
        Node("BinaryExpression", 1, 4, 29, <<>>, <<>>,
             <<"this.status === \"SHIPPED\"">>, "===", 3, 0, 0, 0),
        Node("PropertyAccessExpression", 2, 4, 15, <<"status">>, <<"this">>,
             <<"this.status">>, "", 0, 0, 0, 0),
        Node("Identifier", 3, 9, 15, <<"status">>, <<>>,
             <<"status">>, "", 0, 0, 0, 0),
        Node("ThrowStatement", 1, 31, 52, <<>>, <<>>,
             <<"throw new Error(\"x\");">>, "", 0, 0, 0, 0),
        Node("NewExpression", 5, 37, 51, <<>>, <<"Error">>,
             <<"new Error(\"x\")">>, "", 0, 0, 0, 0),
        Node("Identifier", 6, 41, 46, <<"Error">>, <<>>,
             <<"Error">>, "", 0, 0, 0, 0)>>]

\* if (this.status === "SHIPPED") { throw new Error("x"); }
guardThrowBlock ==
    [width |-> 56,
     nodes |-> <<
        Node("IfStatement", 0, 0, 56, <<>>, <<>>,
             <<"if (this.status === \"SHIPPED\") { throw new Error(\"x\"); }">>, "", 0, 2, 5, 0),
        Node("BinaryExpression", 1, 4, 29, <<>>, <<>>,
             <<"this.status === \"SHIPPED\"">>, "===", 3, 0, 0, 0),
        Node("PropertyAccessExpression", 2, 4, 15, <<"status">>, <<"this">>,
             <<"this.status">>, "", 0, 0, 0, 0),
        Node("Identifier", 3, 9, 15, <<"status">>, <<>>,
             <<"status">>, "", 0, 0, 0, 0),
        Node("Block", 1, 31, 56, <<>>, <<>>,
             <<"{ throw new Error(\"x\"); }">>, "", 0, 0, 0, 0),
        Node("ThrowStatement", 5, 33, 54, <<>>, <<>>,
             <<"throw new Error(\"x\");">>, "", 0, 0, 0, 0),
        Node("NewExpression", 6, 39, 53, <<>>, <<"Error">>,
             <<"new Error(\"x\")">>, "", 0, 0, 0, 0),
        Node("Identifier", 7, 43, 48, <<"Error">>, <<>>,
             <<"Error">>, "", 0, 0, 0, 0)>>]

\* if (customer.tier === "premium") return base * 0.9; else return base;
policyBare ==
    [width |-> 69,
     nodes |-> <<
        Node("IfStatement", 0, 0, 69, <<>>, <<>>,
             <<"if (customer.tier === \"premium\") return base * 0.9; else return base;">>, "", 0, 2, 6, 10),
        Node("BinaryExpression", 1, 4, 31, <<>>, <<>>,
             <<"customer.tier === \"premium\"">>, "===", 3, 0, 0, 0),
        Node("PropertyAccessExpression", 2, 4, 17, <<"tier">>, <<"customer">>,
             <<"customer.tier">>, "", 0, 0, 0, 0),
        Node("Identifier", 3, 4, 12, <<"customer">>, <<>>,
             <<"customer">>, "", 0, 0, 0, 0),
        Node("Identifier", 3, 13, 17, <<"tier">>, <<>>,
             <<"tier">>, "", 0, 0, 0, 0),
        Node("ReturnStatement", 1, 33, 51, <<>>, <<>>,
             <<"return base * 0.9;">>, "", 0, 0, 0, 0),
        Node("BinaryExpression", 6, 40, 50, <<>>, <<>>,
             <<"base * 0.9">>, "*", 8, 0, 0, 0),
        Node("Identifier", 7, 40, 44, <<"base">>, <<>>,
             <<"base">>, "", 0, 0, 0, 0),
        Node("NumericLiteral", 7, 47, 50, <<>>, <<>>,
             <<"0.9">>, "", 0, 0, 0, 0),
        Node("ReturnStatement", 1, 57, 69, <<>>, <<>>,
             <<"return base;">>, "", 0, 0, 0, 0),
        Node("Identifier", 10, 64, 68, <<"base">>, <<>>,
             <<"base">>, "", 0, 0, 0, 0)>>]

\* if (customer.tier === "premium") { return base * 0.9; } else { return base; }
policyBlock ==
    [width |-> 77,
     nodes |-> <<
        Node("IfStatement", 0, 0, 77, <<>>, <<>>,
             <<"if (customer.tier === \"premium\") { return base * 0.9; } else { return base; }">>, "", 0, 2, 6, 11),
        Node("BinaryExpression", 1, 4, 31, <<>>, <<>>,
             <<"customer.tier === \"premium\"">>, "===", 3, 0, 0, 0),
        Node("PropertyAccessExpression", 2, 4, 17, <<"tier">>, <<"customer">>,
             <<"customer.tier">>, "", 0, 0, 0, 0),
        Node("Identifier", 3, 4, 12, <<"customer">>, <<>>,
             <<"customer">>, "", 0, 0, 0, 0),
        Node("Identifier", 3, 13, 17, <<"tier">>, <<>>,
             <<"tier">>, "", 0, 0, 0, 0),
        Node("Block", 1, 33, 55, <<>>, <<>>,
             <<"{ return base * 0.9; }">>, "", 0, 0, 0, 0),
        Node("ReturnStatement", 6, 35, 53, <<>>, <<>>,
             <<"return base * 0.9;">>, "", 0, 0, 0, 0),
        Node("BinaryExpression", 7, 42, 52, <<>>, <<>>,
             <<"base * 0.9">>, "*", 9, 0, 0, 0),
        Node("Identifier", 8, 42, 46, <<"base">>, <<>>,
             <<"base">>, "", 0, 0, 0, 0),
        Node("NumericLiteral", 8, 49, 52, <<>>, <<>>,
             <<"0.9">>, "", 0, 0, 0, 0),
        Node("Block", 1, 61, 77, <<>>, <<>>,
             <<"{ return base; }">>, "", 0, 0, 0, 0),
        Node("ReturnStatement", 11, 63, 75, <<>>, <<>>,
             <<"return base;">>, "", 0, 0, 0, 0),
        Node("Identifier", 12, 70, 74, <<"base">>, <<>>,
             <<"base">>, "", 0, 0, 0, 0)>>]

\* if (flag) { this.status = "A"; } else { this.status = "B"; }
condAssign ==
    [width |-> 60,
     nodes |-> <<
        Node("IfStatement", 0, 0, 60, <<>>, <<>>,
             <<"if (flag) { this.status = \"A\"; } else { this.status = \"B\"; }">>, "", 0, 2, 3, 7),
        Node("Identifier", 1, 4, 8, <<"flag">>, <<>>,
             <<"flag">>, "", 0, 0, 0, 0),
        Node("Block", 1, 10, 32, <<>>, <<>>,
             <<"{ this.status = \"A\"; }">>, "", 0, 0, 0, 0),
        Node("BinaryExpression", 3, 12, 29, <<>>, <<>>,
             <<"this.status = \"A\"">>, "=", 5, 0, 0, 0),
        Node("PropertyAccessExpression", 4, 12, 23, <<"status">>, <<"this">>,
             <<"this.status">>, "", 0, 0, 0, 0),
        Node("Identifier", 5, 17, 23, <<"status">>, <<>>,
             <<"status">>, "", 0, 0, 0, 0),
        Node("Block", 1, 38, 60, <<>>, <<>>,
             <<"{ this.status = \"B\"; }">>, "", 0, 0, 0, 0),
        Node("BinaryExpression", 7, 40, 57, <<>>, <<>>,
             <<"this.status = \"B\"">>, "=", 9, 0, 0, 0),
        Node("PropertyAccessExpression", 8, 40, 51, <<"status">>, <<"this">>,
             <<"this.status">>, "", 0, 0, 0, 0),
        Node("Identifier", 9, 45, 51, <<"status">>, <<>>,
             <<"status">>, "", 0, 0, 0, 0)>>]

\* return base * 0.9 + 1;
nestedCalc ==
    [width |-> 22,
     nodes |-> <<
        Node("ReturnStatement", 0, 0, 22, <<>>, <<>>,
             <<"return base * 0.9 + 1;">>, "", 0, 0, 0, 0),
        Node("BinaryExpression", 1, 7, 21, <<>>, <<>>,
             <<"base * 0.9 + 1">>, "+", 3, 0, 0, 0),
        Node("BinaryExpression", 2, 7, 17, <<>>, <<>>,
             <<"base * 0.9">>, "*", 4, 0, 0, 0),
        Node("Identifier", 3, 7, 11, <<"base">>, <<>>,
             <<"base">>, "", 0, 0, 0, 0),
        Node("NumericLiteral", 3, 14, 17, <<>>, <<>>,
             <<"0.9">>, "", 0, 0, 0, 0),
        Node("NumericLiteral", 2, 20, 21, <<>>, <<>>,
             <<"1">>, "", 0, 0, 0, 0)>>]

Statement(name) ==
    CASE name = "assignState" -> assignState
      [] name = "compoundTotal" -> compoundTotal
      [] name = "callRepo" -> callRepo
      [] name = "throwError" -> throwError
      [] name = "guardThrowBare" -> guardThrowBare
      [] name = "guardThrowBlock" -> guardThrowBlock
      [] name = "policyBare" -> policyBare
      [] name = "policyBlock" -> policyBlock
      [] name = "condAssign" -> condAssign
      [] name = "nestedCalc" -> nestedCalc

\* A node of a statement moved to its place in the file: off is the offset
\* of the statement, base the number of nodes before it, container the
\* index of the enclosing method.
Shift(n, off, base, container, file) ==
    [n EXCEPT !.start = @ + off,
              !.end = @ + off,
              !.parent = IF @ = 0 THEN container ELSE @ + base,
              !.left = IF @ = 0 THEN 0 ELSE @ + base,
              !.expression = IF @ = 0 THEN 0 ELSE @ + base,
              !.thenStatement = IF @ = 0 THEN 0 ELSE @ + base,
              !.elseStatement = IF @ = 0 THEN 0 ELSE @ + base,
              !.file = file]

RECURSIVE bodyWidth(_)
bodyWidth(body) ==
    IF body = <<>> THEN 0
    ELSE Statement(Head(body)).width + 1 + bodyWidth(Tail(body))

RECURSIVE placeStatements(_, _, _, _, _)
placeStatements(body, off, base, container, file) ==
    IF body = <<>> THEN <<>>
    ELSE LET st == Statement(Head(body))
         IN  [i \in 1..Len(st.nodes) |->
                 Shift(st.nodes[i], off, base, container, file)]
             \o placeStatements(Tail(body), off + st.width + 1,
                                base + Len(st.nodes), container, file)

\* The nodes of a file that declares one class with its properties and one
\* method; base is the number of nodes of the files before it.
ClassNodes(decl, base) ==
    LET p == Len(decl.props)
        classIndex == base + 1
        methodIndex == base + 2 + p
        methodStart == 10 + 20 * p
        bodyStart == methodStart + 20
        bodyEnd == bodyStart + bodyWidth(decl.body)
        classNode ==
            [Node("ClassDeclaration", 0, 0, bodyEnd + 4, decl.name, <<>>,
                  <<"class">>, "", 0, 0, 0, 0) EXCEPT !.file = decl.file]
        propertyNode(i) ==
            [Node("PropertyDeclaration", classIndex,
                  10 + 20 * (i - 1), 28 + 20 * (i - 1),
                  decl.props[i].name, <<>>, <<"property">>, "", 0, 0, 0, 0)
             EXCEPT !.file = decl.file,
                    !.flags = (IF decl.props[i].readonly
                               THEN {"readonly"} ELSE {}) \cup
                              (IF decl.props[i].enum THEN {"enum"} ELSE {})]
        methodNode ==
            [Node("MethodDeclaration", classIndex, methodStart, bodyEnd + 2,
                  decl.method.name, <<>>, <<"method">>, "", 0, 0, 0, 0)
             EXCEPT !.file = decl.file,
                    !.flags = IF decl.method.private
                              THEN {"private"} ELSE {},
                    !.params = decl.method.params]
    IN  <<classNode>> \o [i \in 1..p |-> propertyNode(i)] \o <<methodNode>>
        \o placeStatements(decl.body, bodyStart, methodIndex, methodIndex,
                           decl.file)

\* The node table of a project: one file per class declaration.
RECURSIVE AstFrom(_, _)
AstFrom(decls, base) ==
    IF decls = <<>> THEN <<>>
    ELSE LET nodes == ClassNodes(Head(decls), base)
         IN  nodes \o AstFrom(Tail(decls), base + Len(nodes))

Ast(decls) == AstFrom(decls, 0)

\* node.getFirstAncestorByKind(kind); 0 when there is none.
RECURSIVE getFirstAncestorByKind(_, _, _)
getFirstAncestorByKind(ast, i, kind) ==
    LET p == ast[i].parent
    IN  IF p = 0 THEN 0
        ELSE IF ast[p].kind = kind THEN p
        ELSE getFirstAncestorByKind(ast, p, kind)

RECURSIVE isDescendantOf(_, _, _)
isDescendantOf(ast, i, a) ==
    LET p == ast[i].parent
    IN  IF p = 0 THEN FALSE
        ELSE IF p = a THEN TRUE
        ELSE isDescendantOf(ast, p, a)

\* The indices of the node table in document order.
Indices(ast) == [i \in 1..Len(ast) |-> i]

\* node.getDescendantsOfKind(kind): the proper descendants of that kind, in
\* document order; the node itself is never among them.
getDescendantsOfKind(ast, a, kind) ==
    SelectSeq(Indices(ast),
              LAMBDA i : ast[i].kind = kind /\ isDescendantOf(ast, i, a))

\* classNode.getMethods() and classNode.getProperties()
classOwnMethods(ast, c) ==
    SelectSeq(Indices(ast),
              LAMBDA i : ast[i].kind = "MethodDeclaration" /\ ast[i].parent = c)

classOwnProperties(ast, c) ==
    SelectSeq(Indices(ast),
              LAMBDA i : ast[i].kind = "PropertyDeclaration" /\ ast[i].parent = c)

(***************************************************************************)
(* Semantic enrichment (semantic/index)                                    *)
(***************************************************************************)

trackedKinds ==
    {"ImportDeclaration", "ClassDeclaration", "EnumDeclaration",
     "MethodDeclaration", "PropertyDeclaration", "BinaryExpression",
     "IfStatement", "ThrowStatement", "ReturnStatement", "NewExpression",
     "CallExpression"}

\* SemanticEnricher.enrich(parsedFiles).nodes: one semantic node for every
\* node of a tracked kind, in document order.  astNode is the index of the
\* node in the table.  The optional symbol and type of a semantic node are
\* read by no later stage and are left out.
enrich(ast) ==
    LET tracked ==
            SelectSeq(Indices(ast), LAMBDA i : ast[i].kind \in trackedKinds)
    IN  [k \in 1..Len(tracked) |->
            [kind |-> ast[tracked[k]].kind,
             filePath |-> ast[tracked[k]].file,
             astNode |-> tracked[k]]]

(***************************************************************************)
(* Domain model (domain/index)                                             *)
(***************************************************************************)

TECHNICAL_SUFFIXES ==
    <<"Controller", "Service", "Repository", "Adapter", "Gateway">>

\* A faulty isTechnicalClass that knows the first suffix only.
isTechnicalClass_firstSuffixOnly(className) ==
    endsWith(className, <<TECHNICAL_SUFFIXES[1]>>)

isTechnicalClass(className) ==
    \E k \in 1..Len(TECHNICAL_SUFFIXES) :
        endsWith(className, <<TECHNICAL_SUFFIXES[k]>>)

classKey(ast, c) ==
    ast[c].file \o <<":">> \o numberToString(ast[c].start)
                \o <<":">> \o numberToString(ast[c].end)

assignmentOperatorKinds == {"=", "+=", "-=", "*=", "/=", "%="}

isAssignment(ast, b) == ast[b].op \in assignmentOperatorKinds

\* The name of the field in an assignment to this.<field>; <<>> for null.
assignedThisField(ast, b) ==
    IF ~isAssignment(ast, b) THEN <<>>
    ELSE LET left == ast[b].left
         IN  IF ast[left].kind # "PropertyAccessExpression" THEN <<>>
             ELSE IF ast[left].expr # <<"this">> THEN <<>>
             ELSE ast[left].name

\* A faulty hasEnumState that recognises no property type as an enum.
hasEnumState_never(ast, c) == FALSE

\* Some own property of the class has an enum type: the property carries the
\* flag enum.
hasEnumState(ast, c) ==
    LET properties == classOwnProperties(ast, c)
    IN  \E k \in 1..Len(properties) : "enum" \in ast[properties[k]].flags

hasInternalIf(ast, c) ==
    LET methods == classOwnMethods(ast, c)
    IN  \E k \in 1..Len(methods) :
            Len(getDescendantsOfKind(ast, methods[k], "IfStatement")) > 0

hasConditionalAssignment(ast, c) ==
    LET methods == classOwnMethods(ast, c)
    IN  \E k \in 1..Len(methods) :
            LET assignments ==
                    getDescendantsOfKind(ast, methods[k], "BinaryExpression")
            IN  \E j \in 1..Len(assignments) :
                    /\ isAssignment(ast, assignments[j])
                    /\ getFirstAncestorByKind(ast, assignments[j],
                                              "IfStatement") # 0

\* set.add(x) for a Set kept as the sequence of its members in insertion
\* order.
SetAdd(set, x) == IF x \in Range(set) THEN set ELSE Append(set, x)

\* The pairs <<method, assignment>> visited by the nested loops over the
\* own methods of a class and the binary expressions inside each.
RECURSIVE methodAssignments(_, _)
methodAssignments(ast, methods) ==
    IF methods = <<>> THEN <<>>
    ELSE LET assignments ==
                 getDescendantsOfKind(ast, Head(methods), "BinaryExpression")
         IN  [j \in 1..Len(assignments) |-> <<Head(methods), assignments[j]>>]
             \o methodAssignments(ast, Tail(methods))

RECURSIVE collectMutations(_, _, _)
collectMutations(ast, pairs, acc) ==
    IF pairs = <<>> THEN acc
    ELSE LET field == assignedThisField(ast, Head(pairs)[2])
         IN  IF field = <<>> THEN collectMutations(ast, Tail(pairs), acc)
             ELSE collectMutations(ast, Tail(pairs),
                    [mutatedFields |-> SetAdd(acc.mutatedFields, field),
                     mutatorMethods |->
                        SetAdd(acc.mutatorMethods, ast[Head(pairs)[1]].name)])

getMutatedFieldsAndMethods(ast, c) ==
    collectMutations(ast, methodAssignments(ast, classOwnMethods(ast, c)),
                     [mutatedFields |-> <<>>, mutatorMethods |-> <<>>])

fromForCall(ast, call) ==
    LET classNode == getFirstAncestorByKind(ast, call, "ClassDeclaration")
        method == getFirstAncestorByKind(ast, call, "MethodDeclaration")
        fn == getFirstAncestorByKind(ast, call, "FunctionDeclaration")
    IN  IF classNode # 0 /\ method # 0
           /\ ast[classNode].name # <<>> /\ ast[method].name # <<>>
        THEN ast[classNode].name \o <<".">> \o ast[method].name
        ELSE IF fn # 0 /\ ast[fn].name # <<>>
        THEN ast[call].file \o <<"#">> \o ast[fn].name
        ELSE ast[call].file \o <<"#">> \o <<"<anonymous>">>

relationKey(relation) ==
    <<relation.type, ":">> \o relation.from \o <<":">> \o relation.to

\* A faulty store that appends every relation without looking at its key.
setRelation_append(relations, relation) ==
    [keys |-> Append(relations.keys, relationKey(relation)),
     val |-> Append(relations.val, relation)]

\* relations.set(`${type}:${from}:${to}`, relation)
setRelation(relations, relation) ==
    MapSet(relations, relationKey(relation), relation)

\* The MODIFIES relations of one qualifying class.
RECURSIVE entityModifies(_, _, _, _, _)
entityModifies(ast, className, stateFields, pairs, relations) ==
    IF pairs = <<>> THEN relations
    ELSE LET field == assignedThisField(ast, Head(pairs)[2])
         IN  IF field = <<>> \/ field \notin Range(stateFields)
             THEN entityModifies(ast, className, stateFields, Tail(pairs),
                                 relations)
             ELSE entityModifies(ast, className, stateFields, Tail(pairs),
                    setRelation(relations,
                        [from |-> className \o <<".">>
                                            \o ast[Head(pairs)[1]].name,
                         to |-> className \o <<".">> \o field,
                         type |-> "MODIFIES"]))

\* The loop over the class declarations: acc is [entities, relations].
RECURSIVE buildEntities(_, _, _)
buildEntities(ast, classes, acc) ==
    IF classes = <<>> THEN acc
    ELSE
    LET c == Head(classes)
        className == ast[c].name
    IN  IF className = <<>> \/ isTechnicalClass(className)
        THEN buildEntities(ast, Tail(classes), acc)
        ELSE
        LET ownProperties == classOwnProperties(ast, c)
            ownMethods == classOwnMethods(ast, c)
            properties ==
                [k \in 1..Len(ownProperties) |-> ast[ownProperties[k]].name]
            methods == [k \in 1..Len(ownMethods) |-> ast[ownMethods[k]].name]
            mutableFields ==
                {ast[ownProperties[k]].name :
                    k \in {j \in 1..Len(ownProperties) :
                              "readonly" \notin ast[ownProperties[j]].flags}}
            mutated == getMutatedFieldsAndMethods(ast, c)
            stateFields ==
                SelectSeq(mutated.mutatedFields,
                          LAMBDA field : field \in mutableFields)
            qualifiesAsEntity ==
                /\ Cardinality(mutableFields) > 0
                /\ Len(mutated.mutatorMethods) > 0
                /\ \/ hasEnumState(ast, c)
                   \/ hasInternalIf(ast, c)
                   \/ hasConditionalAssignment(ast, c)
        IN  IF ~qualifiesAsEntity
            THEN buildEntities(ast, Tail(classes), acc)
            ELSE buildEntities(ast, Tail(classes),
                   [entities |->
                       Append(acc.entities,
                              [name |-> className,
                               properties |-> properties,
                               methods |-> methods,
                               stateFields |-> stateFields,
                               filePath |-> ast[c].file]),
                    relations |->
                       entityModifies(ast, className, stateFields,
                                      methodAssignments(ast, ownMethods),
                                      acc.relations)])

\* The loop over the call expressions: a CALLS and a USES relation each.
RECURSIVE buildCalls(_, _, _)
buildCalls(ast, callNodes, relations) ==
    IF callNodes = <<>> THEN relations
    ELSE LET from == fromForCall(ast, Head(callNodes))
             to == ast[Head(callNodes)].expr
         IN  buildCalls(ast, Tail(callNodes),
                setRelation(
                    setRelation(relations,
                                [from |-> from, to |-> to, type |-> "CALLS"]),
                    [from |-> from, to |-> to, type |-> "USES"]))

\* The loop over all binary expressions: a MODIFIES relation for every
\* assignment to this.<field> inside a method of a named class.
RECURSIVE buildAssignments(_, _, _)
buildAssignments(ast, assignmentNodes, relations) ==
    IF assignmentNodes = <<>> THEN relations
    ELSE
    LET assignment == Head(assignmentNodes)
        method == getFirstAncestorByKind(ast, assignment, "MethodDeclaration")
        classNode == getFirstAncestorByKind(ast, assignment, "ClassDeclaration")
    IN  IF ~isAssignment(ast, assignment)
        THEN buildAssignments(ast, Tail(assignmentNodes), relations)
        ELSE IF \/ method = 0
                \/ classNode = 0
                \/ ast[classNode].name = <<>>
                \/ assignedThisField(ast, assignment) = <<>>
        THEN buildAssignments(ast, Tail(assignmentNodes), relations)
        ELSE buildAssignments(ast, Tail(assignmentNodes),
               setRelation(relations,
                   [from |-> ast[classNode].name \o <<".">>
                                                 \o ast[method].name,
                    to |-> ast[classNode].name \o <<".">>
                               \o assignedThisField(ast, assignment),
                    type |-> "MODIFIES"]))

\* DomainModelBuilder.build(semanticNodes)
build(ast, semanticNodes) ==
    LET astNodesOfKind(kind) ==
            LET picked == SelectSeq(semanticNodes,
                                    LAMBDA sn : ast[sn.astNode].kind = kind)
            IN  [k \in 1..Len(picked) |-> picked[k].astNode]
        classDeclarations == astNodesOfKind("ClassDeclaration")
        classNodes ==
            MapFromEntries(
                [k \in 1..Len(classDeclarations) |->
                    <<classKey(ast, classDeclarations[k]),
                      classDeclarations[k]>>],
                EmptyMap)
        callNodes == astNodesOfKind("CallExpression")
        assignmentNodes == astNodesOfKind("BinaryExpression")
        perClass ==
            buildEntities(ast, MapValues(classNodes),
                          [entities |-> <<>>, relations |-> EmptyMap])
        withCalls == buildCalls(ast, callNodes, perClass.relations)
        withAssignments == buildAssignments(ast, assignmentNodes, withCalls)
    IN  [semanticNodes |-> semanticNodes,
         entities |-> perClass.entities,
         relations |-> MapValues(withAssignments)]

(***************************************************************************)
(* Business rules (rules/index)                                            *)
(***************************************************************************)

\* filePath.replace(/\\/g, "/")
normalizeSeparators(filePath) ==
    [i \in 1..Len(filePath) |-> IF filePath[i] = "\\" THEN "/" ELSE filePath[i]]

isTechnicalLayer(filePath) ==
    LET normalized == toLowerCase(normalizeSeparators(filePath))
    IN  \/ includes(normalized, <<"/", "controller">>)
        \/ includes(normalized, <<"/", "infra">>)
        \/ includes(normalized, <<"/", "adapter">>)

hasThrow(ast, node) == Len(getDescendantsOfKind(ast, node, "ThrowStatement")) > 0

hasReturn(ast, node) ==
    Len(getDescendantsOfKind(ast, node, "ReturnStatement")) > 0

\* Some assignment inside the method writes a state field of the entity.
mutatesStateOf(ast, method, entity) ==
    LET binaries == getDescendantsOfKind(ast, method, "BinaryExpression")
    IN  \E k \in 1..Len(binaries) :
            LET field == assignedThisField(ast, binaries[k])
            IN  field # <<>> /\ field \in Range(entity.stateFields)

hasStateMutation(ast, method, entity) ==
    IF entity = None THEN FALSE ELSE mutatesStateOf(ast, method, entity)

\* A property access whose symbol is declared by an enum or an enum member
\* carries the flag enumSymbol.
usesEnumState(ast, node) ==
    LET accesses == getDescendantsOfKind(ast, node, "PropertyAccessExpression")
    IN  \E k \in 1..Len(accesses) : "enumSymbol" \in ast[accesses[k]].flags

isPublicMethod(ast, method) ==
    IF method = 0 THEN FALSE
    ELSE ast[method].flags \cap {"private", "protected"} = {}

isStrongStructuralPattern(type, ast, node) ==
    CASE type = "STATE_TRANSITION" -> TRUE
      [] type = "INVARIANT" -> hasThrow(ast, node) \/ hasReturn(ast, node)
      [] type = "CALCULATION" -> ast[node].kind = "BinaryExpression"
      [] type = "POLICY" ->
            ast[node].kind = "IfStatement" /\ ast[node].elseStatement # 0
      [] type = "CONTEXT_RESTRICTION" -> ast[node].kind = "IfStatement"
      [] OTHER -> FALSE

isIsolatedCalculation(ast, binary) ==
    LET hasMutation == assignedThisField(ast, binary) # <<>>
        insideIf == getFirstAncestorByKind(ast, binary, "IfStatement") # 0
    IN  ~hasMutation /\ ~insideIf

ruleId(type, filePath, start) ==
    <<type, ":">> \o filePath \o <<":">> \o numberToString(start)

createContext(ast, rule, node, method, entity, mutatesStateField, hasExplicitThrow, usesStateEnum, isolatedCalculation) ==
    [inDomainEntity |-> entity # None,
     mutatesStateField |-> mutatesStateField,
     hasExplicitThrow |-> hasExplicitThrow,
     inPublicMethod |-> isPublicMethod(ast, method),
     usesStateEnum |-> usesStateEnum,
     outsideControllerInfra |-> ~isTechnicalLayer(rule.filePath),
     strongStructuralPattern |-> isStrongStructuralPattern(rule.type, ast, node),
     inController |-> includes(toLowerCase(rule.filePath), <<"controller">>),
     isolatedCalculation |-> isolatedCalculation]

detectContextRestriction(ast, ifNode, entity) ==
    LET condition == ast[ifNode].expression
        news == getDescendantsOfKind(ast, condition, "NewExpression")
        calls == getDescendantsOfKind(ast, condition, "CallExpression")
        accesses ==
            getDescendantsOfKind(ast, condition, "PropertyAccessExpression")
        identifiers == getDescendantsOfKind(ast, condition, "Identifier")
        method == getFirstAncestorByKind(ast, ifNode, "MethodDeclaration")
        hasDateCheck ==
            \/ \E k \in 1..Len(news) : ast[news[k]].expr = <<"Date">>
            \/ \E k \in 1..Len(calls) :
                  ast[calls[k]].expr = <<"Date", ".", "now">>
        hasStatusCheck ==
            \E k \in 1..Len(accesses) :
                toLowerCase(ast[accesses[k]].name) = <<"status">>
        hasFeatureFlag ==
            \E k \in 1..Len(accesses) :
                LET left == toLowerCase(ast[accesses[k]].expr)
                    right == toLowerCase(ast[accesses[k]].name)
                IN  \/ left = <<"process", ".", "env">>
                    \/ includes(right, <<"flag">>)
                    \/ includes(right, <<"feature">>)
        hasExternalContext ==
            IF method = 0 THEN FALSE
            ELSE \E k \in 1..Len(identifiers) :
                    \/ ast[identifiers[k]].name \in Range(ast[method].params)
                    \/ ast[identifiers[k]].name = <<"process">>
    IN  hasDateCheck \/ hasStatusCheck \/ hasFeatureFlag \/ hasExternalContext

detectPolicy(ast, ifNode) ==
    LET thenStatement == ast[ifNode].thenStatement
        elseStatement == ast[ifNode].elseStatement
        hasElse == elseStatement # 0
        thenReturns == hasReturn(ast, thenStatement)
        elseReturns ==
            IF elseStatement # 0 THEN hasReturn(ast, elseStatement) ELSE FALSE
        thenAssignments ==
            Len(getDescendantsOfKind(ast, thenStatement, "BinaryExpression"))
        elseAssignments ==
            IF elseStatement # 0
            THEN Len(getDescendantsOfKind(ast, elseStatement,
                                          "BinaryExpression"))
            ELSE 0
    IN  \/ hasElse
        \/ (thenReturns /\ elseReturns)
        \/ (thenAssignments > 0 /\ elseAssignments > 0)

\* A faulty detectInvariant that takes a guard clause for an invariant only
\* in a method of a domain entity.
detectInvariant_entityOnly(ast, ifNode, method, entity) ==
    /\ entity # None
    /\ \/ hasThrow(ast, ast[ifNode].thenStatement)
       \/ hasReturn(ast, ast[ifNode].thenStatement)

detectInvariant(ast, ifNode, method, entity) ==
    LET thenStatement == ast[ifNode].thenStatement
        guardClause == hasThrow(ast, thenStatement) \/ hasReturn(ast, thenStatement)
    IN  IF ~guardClause THEN FALSE
        ELSE IF entity = None THEN TRUE
        ELSE guardClause \/ mutatesStateOf(ast, method, entity)

arithmeticOperatorKinds == {"+", "-", "*", "/", "%"}

detectCalculation(ast, binary, entity) ==
    IF ast[binary].op \notin arithmeticOperatorKinds THEN FALSE
    ELSE LET accesses ==
                 getDescendantsOfKind(ast, binary, "PropertyAccessExpression")
             hasNumericLiteral ==
                 Len(getDescendantsOfKind(ast, binary, "NumericLiteral")) > 0
             hasEntityProperty ==
                 IF entity = None THEN FALSE
                 ELSE \E k \in 1..Len(accesses) :
                         /\ ast[accesses[k]].expr = <<"this">>
                         /\ ast[accesses[k]].name \in Range(entity.properties)
         IN  hasNumericLiteral \/ hasEntityProperty

\* The type of the rule for an if statement inside a method; "" for none.
classifyIf(ast, ifNode, method, entity) ==
    IF detectInvariant(ast, ifNode, method, entity) THEN "INVARIANT"
    ELSE IF detectContextRestriction(ast, ifNode, entity)
    THEN "CONTEXT_RESTRICTION"
    ELSE IF detectPolicy(ast, ifNode) THEN "POLICY"
    ELSE ""

\* A faulty test that takes every assignment to this.<field> in an entity
\* for a state transition.
isStateTransition_anyField(ast, binary, entity) ==
    /\ entity # None
    /\ assignedThisField(ast, binary) # <<>>

\* The binary expression assigns a state field of the owning entity.
isStateTransition(ast, binary, entity) ==
    /\ entity # None
    /\ assignedThisField(ast, binary) # <<>>
    /\ assignedThisField(ast, binary) \in Range(entity.stateFields)

withConfidence(rule, context) ==
    [rule EXCEPT !.confidence = calculateConfidence(rule, context)]

\* The rule for an if statement of the given type.
ifRule(ast, ifNode, type, method, entity, filePath) ==
    LET baseRule ==
            [id |-> ruleId(type, filePath, ast[ifNode].start),
             type |-> type,
             entity |-> IF entity = None THEN <<>> ELSE entity.name,
             method |-> ast[method].name,
             filePath |-> filePath,
             condition |-> ast[ast[ifNode].expression].text,
             consequence |-> ast[ast[ifNode].thenStatement].text,
             astLocation |-> [start |-> ast[ifNode].start,
                              end |-> ast[ifNode].end],
             confidence |-> Dec(0)]
    IN  withConfidence(baseRule,
            createContext(ast, baseRule, ifNode, method, entity,
                          hasStateMutation(ast, method, entity),
                          hasThrow(ast, ifNode),
                          usesEnumState(ast, ifNode),
                          FALSE))

stateTransitionRule(ast, binary, method, entity, filePath) ==
    LET baseRule ==
            [id |-> ruleId("STATE_TRANSITION", filePath, ast[binary].start),
             type |-> "STATE_TRANSITION",
             entity |-> entity.name,
             method |-> ast[method].name,
             filePath |-> filePath,
             condition |-> assignedThisField(ast, binary) \o <<" assignment">>,
             consequence |-> ast[binary].text,
             astLocation |-> [start |-> ast[binary].start,
                              end |-> ast[binary].end],
             confidence |-> Dec(0)]
    IN  withConfidence(baseRule,
            createContext(ast, baseRule, binary, method, entity,
                          TRUE,
                          hasThrow(ast, method),
                          usesEnumState(ast, binary),
                          FALSE))

calculationRule(ast, binary, method, entity, filePath) ==
    LET baseRule ==
            [id |-> ruleId("CALCULATION", filePath, ast[binary].start),
             type |-> "CALCULATION",
             entity |-> IF entity = None THEN <<>> ELSE entity.name,
             method |-> ast[method].name,
             filePath |-> filePath,
             condition |-> ast[ast[binary].left].text,
             consequence |-> ast[binary].text,
             astLocation |-> [start |-> ast[binary].start,
                              end |-> ast[binary].end],
             confidence |-> Dec(0)]
    IN  withConfidence(baseRule,
            createContext(ast, baseRule, binary, method, entity,
                          FALSE,
                          hasThrow(ast, method),
                          usesEnumState(ast, binary),
                          isIsolatedCalculation(ast, binary)))

\* The rules pushed for one semantic node.
rulesOfNode(ast, semanticNode, byClass) ==
    LET node == semanticNode.astNode
        classNode == getFirstAncestorByKind(ast, node, "ClassDeclaration")
        method == getFirstAncestorByKind(ast, node, "MethodDeclaration")
        className == IF classNode = 0 THEN <<>> ELSE ast[classNode].name
        entity == IF className # <<>> THEN MapGet(byClass, className) ELSE None
        filePath == semanticNode.filePath
        type == classifyIf(ast, node, method, entity)
    IN  IF ast[node].kind = "IfStatement" /\ method # 0
        THEN IF type # ""
             THEN <<ifRule(ast, node, type, method, entity, filePath)>>
             ELSE <<>>
        ELSE IF ast[node].kind = "BinaryExpression" /\ method # 0
        THEN IF isStateTransition(ast, node, entity)
             THEN <<stateTransitionRule(ast, node, method, entity, filePath)>>
             ELSE IF detectCalculation(ast, node, entity)
             THEN <<calculationRule(ast, node, method, entity, filePath)>>
             ELSE <<>>
        ELSE <<>>

RECURSIVE collectRules(_, _, _)
collectRules(ast, semanticNodes, byClass) ==
    IF semanticNodes = <<>> THEN <<>>
    ELSE rulesOfNode(ast, Head(semanticNodes), byClass)
         \o collectRules(ast, Tail(semanticNodes), byClass)

\* BusinessRuleEngine.extract(input).  The locals byClass and rules of the
\* code are bound as the one member of a singleton set, so that each is
\* computed once.
extract(ast, input) ==
    CHOOSE deduped \in
        {MapValues(MapFromEntries(
             [k \in 1..Len(pushed) |-> <<pushed[k].id, pushed[k]>>], EmptyMap)) :
            pushed \in
                {collectRules(ast, input.semanticNodes, byClass) :
                    byClass \in
                        {MapFromEntries(
                            [k \in 1..Len(input.domainEntities) |->
                                <<input.domainEntities[k].name,
                                  input.domainEntities[k]>>],
                            EmptyMap)}}} : TRUE

(***************************************************************************)
(* Architectural analysis (architecture/index)                             *)
(***************************************************************************)

startsWith(s, pat) ==
    /\ Len(pat) <= Len(s)
    /\ \A j \in 1..Len(pat) : s[j] = pat[j]

\* filePath.replace(/\\/g, "/").split("/").includes(segment)
hasLayerSegment(filePath, segment) ==
    \E i \in 1..Len(filePath) : filePath[i] = segment

domainCallingInfra(relations) ==
    LET found ==
            SelectSeq(relations,
                      LAMBDA relation :
                          /\ relation.type = "CALLS"
                          /\ includes(relation.from, <<"domain">>)
                          /\ includes(toLowerCase(relation.to), <<"infra">>))
    IN  [k \in 1..Len(found) |->
            [id |-> <<"violation:domain-calling-infra:">> \o found[k].from,
             type |-> "DOMAIN_CALLING_INFRA",
             message |-> <<"Domain layer calling infrastructure component.">>,
             filePath |-> <<>>,
             relatedIds |-> <<found[k].from, found[k].to>>]]

ruleInController(ruleList) ==
    LET found ==
            SelectSeq(ruleList,
                      LAMBDA rule :
                          \/ endsWith(rule.method, <<"Controller">>)
                          \/ includes(rule.filePath, <<"controller">>))
    IN  [k \in 1..Len(found) |->
            [id |-> <<"violation:rule-in-controller:">> \o found[k].id,
             type |-> "RULE_IN_CONTROLLER",
             message |-> <<"Business rule found in controller layer.">>,
             filePath |-> found[k].filePath,
             relatedIds |-> <<found[k].id>>]]

anemicEntities_exactFrom(entities, relations) ==
    LET found ==
            SelectSeq(entities,
                      LAMBDA entity :
                          /\ Len(entity.stateFields) > 0
                          /\ ~\E k \in 1..Len(relations) :
                                /\ relations[k].type = "MODIFIES"
                                /\ relations[k].from = entity.name)
    IN  [k \in 1..Len(found) |->
            [id |-> <<"violation:anemic-entity:">> \o found[k].name,
             type |-> "ANEMIC_ENTITY",
             message |-> <<"Entity ">> \o found[k].name
                         \o <<" has state but no detected state mutations.">>,
             filePath |-> found[k].filePath,
             relatedIds |-> <<found[k].name>>]]

anemicEntities(entities, relations) ==
    LET found ==
            SelectSeq(entities,
                      LAMBDA entity :
                          /\ Len(entity.stateFields) > 0
                          /\ ~\E k \in 1..Len(relations) :
                                /\ relations[k].type = "MODIFIES"
                                /\ startsWith(relations[k].from,
                                              entity.name \o <<".">>))
    IN  [k \in 1..Len(found) |->
            [id |-> <<"violation:anemic-entity:">> \o found[k].name,
             type |-> "ANEMIC_ENTITY",
             message |-> <<"Entity ">> \o found[k].name
                         \o <<" has state but no detected state mutations.">>,
             filePath |-> found[k].filePath,
             relatedIds |-> <<found[k].name>>]]

\* The number of methods from which a service is fat.
FatServiceMethods == 8

fatServices(ast, semanticNodes) ==
    LET found ==
            SelectSeq(semanticNodes,
                      LAMBDA node :
                          /\ node.kind = "ClassDeclaration"
                          /\ endsWith(ast[node.astNode].name, <<"Service">>)
                          /\ Len(classOwnMethods(ast, node.astNode))
                                 >= FatServiceMethods)
    IN  [k \in 1..Len(found) |->
            [id |-> <<"violation:fat-service:">> \o found[k].filePath
                    \o <<":">> \o ast[found[k].astNode].name,
             type |-> "FAT_SERVICE",
             message |-> <<"Service ">> \o ast[found[k].astNode].name
                         \o <<" exposes ">>
                         \o numberToString(
                                Len(classOwnMethods(ast, found[k].astNode)))
                         \o <<" methods.">>,
             filePath |-> found[k].filePath,
             relatedIds |-> <<ast[found[k].astNode].name>>]]

\* The module specifier of an import declaration is the expr of its node.
layerViolations(ast, semanticNodes) ==
    LET found ==
            SelectSeq(semanticNodes,
                      LAMBDA node :
                          /\ node.kind = "ImportDeclaration"
                          /\ hasLayerSegment(node.filePath, "domain")
                          /\ includes(ast[node.astNode].expr, <<"infra">>))
    IN  [k \in 1..Len(found) |->
            [id |-> <<"violation:layer:">> \o found[k].filePath,
             type |-> "LAYER_VIOLATION",
             message |-> <<"Domain module importing infrastructure module.">>,
             filePath |-> found[k].filePath,
             relatedIds |-> <<found[k].filePath>>]]

\* `${rule.entity ?? "none"}:${rule.type}`
ruleGroupKey(rule) ==
    (IF rule.entity = <<>> THEN <<"none">> ELSE rule.entity)
        \o <<":", rule.type>>

\* The Map from group key to the Set of the file paths of its rules.
RECURSIVE ruleGroups(_, _)
ruleGroups(ruleList, groups) ==
    IF ruleList = <<>> THEN groups
    ELSE LET key == ruleGroupKey(Head(ruleList))
             fileSet == IF MapHas(groups, key) THEN MapGet(groups, key)
                        ELSE <<>>
         IN  ruleGroups(Tail(ruleList),
                        MapSet(groups, key,
                               SetAdd(fileSet, Head(ruleList).filePath)))

\* The number of files from which a rule pattern is scattered.
ScatteredRuleFiles == 3

scatteredRules(ruleList) ==
    LET groups == ruleGroups(ruleList, EmptyMap)
        found == SelectSeq(Indices(groups.keys),
                           LAMBDA k : Len(groups.val[k]) >= ScatteredRuleFiles)
    IN  [k \in 1..Len(found) |->
            [id |-> <<"violation:scattered-rule:">> \o groups.keys[found[k]],
             type |-> "SCATTERED_RULE",
             message |-> <<"Rule pattern ">> \o groups.keys[found[k]]
                         \o <<" appears across ">>
                         \o numberToString(Len(groups.val[found[k]]))
                         \o <<" files.">>,
             filePath |-> <<>>,
             relatedIds |-> groups.val[found[k]]]]

\* A faulty analyze whose list of violations is a field of the analyzer, kept
\* from one call to the next.
analyze_retaining(ast, analysis) ==
    violations
    \o domainCallingInfra(analysis.domainModel.relations)
    \o ruleInController(analysis.rules)
    \o anemicEntities(analysis.domainModel.entities,
                      analysis.domainModel.relations)
    \o fatServices(ast, analysis.domainModel.semanticNodes)
    \o layerViolations(ast, analysis.domainModel.semanticNodes)
    \o scatteredRules(analysis.rules)

\* ArchitecturalAnalyzer.analyze(analysis)
analyze(ast, analysis) ==
    domainCallingInfra(analysis.domainModel.relations)
    \o ruleInController(analysis.rules)
    \o anemicEntities(analysis.domainModel.entities,
                      analysis.domainModel.relations)
    \o fatServices(ast, analysis.domainModel.semanticNodes)
    \o layerViolations(ast, analysis.domainModel.semanticNodes)
    \o scatteredRules(analysis.rules)

(***************************************************************************)
(* Parser, report and the engine (parser/index, report/index, index)       *)
(***************************************************************************)

DEFAULT_EXCLUDED_DIRS ==
    {"node_modules", "dist", "build", ".next", ".git", "coverage"}

shouldIgnoreFile(filePath) ==
    \E i \in 1..Len(filePath) :
        normalizeSeparators(filePath)[i] \in DEFAULT_EXCLUDED_DIRS

\* sourceFile.getFilePath(): the absolute path of a file of the tree, whose
\* files are listed by their path below the project root.
getFilePath(fs, file) == fs.projectPath \o <<"/">> \o file.file

\* CodeParser.parseProject(projectPath) over a directory tree fs: no source
\* file is found under a root that does not exist, with or without a
\* tsconfig.json, and nothing is thrown.
parseProject(fs) ==
    LET sourceFiles ==
            IF fs.rootExists
            THEN [k \in 1..Len(fs.files) |->
                     [fs.files[k] EXCEPT !.file = getFilePath(fs, fs.files[k])]]
            ELSE <<>>
    IN  SelectSeq(sourceFiles, LAMBDA file : ~shouldIgnoreFile(file.file))

\* A faulty buildInitialImpact that seeds the report with no simulation.
buildInitialImpact_null(ruleAnalysis) == [error |-> <<>>, result |-> None]

\* CoreEngine.buildInitialImpact(ruleAnalysis); a result of None is null.
buildInitialImpact(ruleAnalysis) ==
    IF ruleAnalysis.rules = <<>> THEN [error |-> <<>>, result |-> None]
    ELSE simulate(ruleAnalysis.rules[1].id,
                  [domainEntities |-> ruleAnalysis.domainModel.entities,
                   businessRules |-> ruleAnalysis.rules,
                   domainRelations |-> ruleAnalysis.domainModel.relations])

\* ReportGenerator.generate(input)
generate(input) ==
    [entities |-> input.entities,
     relations |-> input.relations,
     rules |-> input.rules,
     impact |-> input.impact,
     architecturalViolations |-> input.architecturalViolations]

(***************************************************************************)
(* Impact simulation of the service path                                   *)
(* (services/impact-simulation-engine)                                     *)
(***************************************************************************)

\* The depth below which a visited node is put on the queue.
ServiceQueueDepth == 3

\* The for loop over the edges at the node current taken from the queue.
RECURSIVE visitEdges(_, _, _)
visitEdges(outgoing, current, st) ==
    IF outgoing = <<>> THEN st
    ELSE LET edge == Head(outgoing)
             nextId == IF edge.from = current.id THEN edge.to ELSE edge.from
         IN  IF nextId \in Range(st.visited)
             THEN visitEdges(Tail(outgoing), current, st)
             ELSE visitEdges(
                      Tail(outgoing), current,
                      [visited |-> Append(st.visited, nextId),
                       directIds |-> IF current.depth = 0
                                     THEN Append(st.directIds, nextId)
                                     ELSE st.directIds,
                       indirectIds |-> IF current.depth = 0
                                       THEN st.indirectIds
                                       ELSE Append(st.indirectIds, nextId),
                       queue |-> IF current.depth < ServiceQueueDepth
                                 THEN Append(st.queue,
                                             [id |-> nextId,
                                              depth |-> current.depth + 1])
                                 ELSE st.queue])

\* The while loop over the queue.
RECURSIVE drainQueue(_, _)
drainQueue(edges, st) ==
    IF st.queue = <<>> THEN st
    ELSE LET current == Head(st.queue)
             outgoing ==
                 SelectSeq(edges,
                           LAMBDA edge : \/ edge.from = current.id
                                         \/ edge.to = current.id)
         IN  drainQueue(edges,
                        visitEdges(outgoing, current,
                                   [st EXCEPT !.queue = Tail(st.queue)]))

\* [...ids].flatMap((id) => (nodes.get(id) ? [nodes.get(id)!] : []))
nodesOf(nodes, ids) ==
    LET known == SelectSeq(ids, LAMBDA id : MapHas(nodes, id))
    IN  [k \in 1..Len(known) |-> MapGet(nodes, known[k])]

RegressionTypes ==
    {"Endpoint", "BusinessRule", "Function", "DomainEntity", "UseCase",
     "ArchitectureSmell"}

RECURSIVE uniqueInOrder(_, _)
uniqueInOrder(list, acc) ==
    IF list = <<>> THEN acc
    ELSE uniqueInOrder(Tail(list), SetAdd(acc, Head(list)))

\* ImpactSimulationEngine.simulate(request) of an engine built over nodes and
\* edges.
serviceSimulate(nodes, edges, request) ==
    LET st == drainQueue(edges,
                         [visited |-> <<request.changedNodeId>>,
                          directIds |-> <<>>,
                          indirectIds |-> <<>>,
                          queue |-> <<[id |-> request.changedNodeId,
                                       depth |-> 0]>>])
        directImpacts == nodesOf(nodes, st.directIds)
        indirectImpacts == nodesOf(nodes, st.indirectIds)
        score == Len(directImpacts) * 2 + Len(indirectImpacts)
        regression ==
            SelectSeq(directImpacts \o indirectImpacts,
                      LAMBDA node : node.type \in RegressionTypes)
    IN  [directImpacts |-> directImpacts,
         indirectImpacts |-> indirectImpacts,
         riskLevel |-> IF score > 20 THEN "high"
                       ELSE IF score > 8 THEN "medium" ELSE "low",
         suggestedRegressionAreas |->
            uniqueInOrder([k \in 1..Len(regression) |->
                              <<"Validate ", regression[k].type, ": ">>
                                  \o regression[k].label],
                          <<>>)]

(***************************************************************************)
(* Inputs                                                                  *)
(***************************************************************************)

\* Longest list of business rules handed to simulate.
MaxRules == 2

\* Largest number of relations handed to simulate.
MaxRelations == 3

\* Largest number of classes (one per file) in a project.
MaxClasses == 2

\* Largest number of statements in a method body.
MaxStatements == 2

\* The sequences over S of length at most n.
SeqUpTo(S, n) == UNION {[1..k -> S] : k \in 0..n}

DomainPath == <<"src", "/", "domain", "/", "order", ".ts">>
ControllerPath == <<"src", "/", "controller", "/", "order", ".ts">>
ServicePath == <<"src", "/", "order", ".", "service", ".ts">>
InfraPath == <<"src", "/", "infra", "/", "order", ".ts">>
LegacyPath == <<"src", "/", "legacy", "/", "order", ".ts">>
InvoicePath == <<"src", "/", "domain", "/", "invoice", ".ts">>

\* A rule id that no rule has.
UnknownRuleId == <<"unknown">>

SimRule(type, entity, method, filePath, start) ==
    [id |-> ruleId(type, filePath, start),
     type |-> type,
     entity |-> entity,
     method |-> method,
     filePath |-> filePath,
     condition |-> <<>>,
     consequence |-> <<>>,
     astLocation |-> [start |-> start, end |-> start + 1],
     confidence |-> Dec(0)]

\* The rules a simulation is asked about.
SimRules ==
    {SimRule(type, entity, method, filePath, 0) :
        type \in RuleTypes,
        entity \in {<<>>, <<"Order">>},
        method \in {<<>>, <<"ship">>},
        filePath \in {DomainPath, ControllerPath, ServicePath}}

\* The rules that may follow rule r in the list: one with the id of r and
\* another owner, and one more rule of the entity Invoice.
Companions(r) ==
    {[r EXCEPT !.entity = <<"Invoice">>, !.method = <<>>],
     SimRule("POLICY", <<"Invoice">>, <<"quote">>, InvoicePath, 7)}

SimRuleLists ==
    {<<>>} \cup
    UNION {{<<r>> \o tail : tail \in SeqUpTo(Companions(r), MaxRules - 1)} :
              r \in SimRules}

SimEntity(name, filePath) ==
    [name |-> name, properties |-> <<>>, methods |-> <<>>,
     stateFields |-> <<>>, filePath |-> filePath]

SimEntityLists ==
    {<<>>,
     <<SimEntity(<<"Order">>, DomainPath),
       SimEntity(<<"Invoice">>, InvoicePath)>>}

\* The relations of the graph around a root node.
SimEdges(root) ==
    <<[from |-> root, to |-> <<"repo", ".", "save">>, type |-> "CALLS"],
      [from |-> root, to |-> InfraPath, type |-> "USES"],
      [from |-> <<"repo", ".", "save">>, to |-> InfraPath,
       type |-> "DEPENDS_ON"],
      [from |-> <<"repo", ".", "save">>, to |-> <<"Order">>, type |-> "CALLS"],
      [from |-> InfraPath, to |-> root, type |-> "CALLS"],
      [from |-> root, to |-> <<"Order", ".", "status">>, type |-> "MODIFIES"]>>

\* The sublists of at most MaxRelations of a list of edges.
SimRelationLists(edges) ==
    {SelectSeq([i \in 1..Len(edges) |-> [edge |-> edges[i], at |-> i]],
               LAMBDA e : e.at \in picked) :
        picked \in {S \in SUBSET (1..Len(edges)) :
                       Cardinality(S) <= MaxRelations}}

Unwrap(list) == [i \in 1..Len(list) |-> list[i].edge]

(***************************************************************************)
(* calculateConfidence on its own                                          *)
(***************************************************************************)

InitConfidence ==
    /\ pc = "confidence"
    /\ \E type \in RuleTypes, context \in [ContextFlags -> BOOLEAN] :
          /\ confRule = SimRule(type, <<>>, <<>>, DomainPath, 0)
          /\ confContext = context
    /\ confidence = None
    /\ simRuleId = <<>> /\ simInput = None /\ simulation = None
    /\ thrown = <<>>
    /\ project = <<>> /\ semantic = <<>> /\ domainModel = None
    /\ rules = <<>>
    /\ fileSystem = None /\ violations = <<>>
    /\ report = None /\ previousReport = None
    /\ serviceGraph = None /\ changedNodeId = <<>> /\ impactReport = None
    /\ traversalRoot = <<>> /\ traversal = None /\ traversalResult = None

CalculateConfidence ==
    /\ pc = "confidence"
    /\ confidence' = calculateConfidence(confRule, confContext)
    /\ pc' = "done"
    /\ UNCHANGED <<confRule, confContext, simRuleId, simInput, simulation,
                   thrown, project, semantic, domainModel, rules,
                   fileSystem, violations, report, previousReport,
                   serviceGraph, changedNodeId, impactReport,
                   traversalRoot, traversal, traversalResult>>

NextConfidence == CalculateConfidence

SpecConfidence == InitConfidence /\ [][NextConfidence]_vars

(***************************************************************************)
(* ImpactSimulationEngine.simulate on its own                              *)
(***************************************************************************)

InitSimulate ==
    /\ pc = "simulate"
    /\ \E ruleList \in SimRuleLists, entities \in SimEntityLists :
          \E relations \in SimRelationLists(
                  SimEdges(IF ruleList = <<>> THEN UnknownRuleId
                           ELSE resolveRootNode(ruleList[1]))) :
              simInput = [domainEntities |-> entities,
                          businessRules |-> ruleList,
                          domainRelations |-> Unwrap(relations)]
    /\ simRuleId \in {UnknownRuleId} \cup
                     (IF simInput.businessRules = <<>> THEN {}
                      ELSE {simInput.businessRules[1].id})
    /\ simulation = None /\ thrown = <<>>
    /\ confRule = None /\ confContext = None /\ confidence = None
    /\ project = <<>> /\ semantic = <<>> /\ domainModel = None
    /\ rules = <<>>
    /\ fileSystem = None /\ violations = <<>>
    /\ report = None /\ previousReport = None
    /\ serviceGraph = None /\ changedNodeId = <<>> /\ impactReport = None
    /\ traversalRoot = <<>> /\ traversal = None /\ traversalResult = None

Simulate ==
    /\ pc = "simulate"
    /\ LET outcome == simulate(simRuleId, simInput)
       IN  /\ simulation' = outcome.result
           /\ thrown' = outcome.error
    /\ pc' = "done"
    /\ UNCHANGED <<confRule, confContext, confidence, simRuleId, simInput,
                   project, semantic, domainModel, rules,
                   fileSystem, violations, report, previousReport,
                   serviceGraph, changedNodeId, impactReport,
                   traversalRoot, traversal, traversalResult>>

NextSimulate == Simulate

SpecSimulate == InitSimulate /\ [][NextSimulate]_vars

(***************************************************************************)
(* CoreEngine.simulateRuleImpact: parse, enrich, build, extract, simulate  *)
(***************************************************************************)

StatementNames ==
    {"assignState", "compoundTotal", "callRepo", "throwError",
     "guardThrowBare", "guardThrowBlock", "policyBare", "policyBlock",
     "condAssign", "nestedCalc"}

\* The statements that may follow the first statement of a body.
FollowUpNames == {"assignState", "callRepo"}

Bodies ==
    UNION {{<<first>> \o rest :
               rest \in SeqUpTo(FollowUpNames, MaxStatements - 1)} :
              first \in StatementNames}

Property(name, readonly, enum) ==
    [name |-> name, readonly |-> readonly, enum |-> enum]

PropertyLists ==
    {<<>>,
     <<Property(<<"status">>, FALSE, FALSE)>>,
     <<Property(<<"status">>, FALSE, TRUE)>>,
     <<Property(<<"status">>, TRUE, FALSE)>>}

ClassNames == {<<"Order">>, <<"Order", "Service">>}

\* The method of the class and the file the class is in.
MethodVariants ==
    {[name |-> <<"ship">>, private |-> FALSE,
      params |-> <<>>, file |-> DomainPath],
     [name |-> <<"cancel">>, private |-> TRUE,
      params |-> <<>>, file |-> ControllerPath],
     [name |-> <<"quote">>, private |-> FALSE,
      params |-> <<<<"customer">>, <<"base">>>>, file |-> InfraPath]}

PrimaryClasses ==
    {[name |-> name,
      file |-> variant.file,
      props |-> props,
      method |-> [name |-> variant.name, private |-> variant.private,
                  params |-> variant.params],
      body |-> body] :
        name \in ClassNames, variant \in MethodVariants,
        props \in PropertyLists, body \in Bodies}

\* A second class named Order, in another file, that qualifies as an entity.
LegacyOrderClass ==
    [name |-> <<"Order">>,
     file |-> LegacyPath,
     props |-> <<Property(<<"status">>, FALSE, TRUE)>>,
     method |-> [name |-> <<"ship">>, private |-> FALSE, params |-> <<>>],
     body |-> <<"assignState">>]

\* A class Invoice that qualifies as an entity and calls a collaborator.
InvoiceClass ==
    [name |-> <<"Invoice">>,
     file |-> InvoicePath,
     props |-> <<Property(<<"status">>, FALSE, FALSE)>>,
     method |-> [name |-> <<"quote">>, private |-> FALSE, params |-> <<>>],
     body |-> <<"condAssign", "callRepo">>]

SecondaryClasses == {LegacyOrderClass, InvoiceClass}

Init ==
    /\ pc = "parsed"
    /\ \E primary \in PrimaryClasses,
          others \in SeqUpTo(SecondaryClasses, MaxClasses - 1) :
          project = <<primary>> \o others
    /\ semantic = <<>> /\ domainModel = None /\ rules = <<>>
    /\ simRuleId = <<>> /\ simInput = None /\ simulation = None
    /\ thrown = <<>>
    /\ confRule = None /\ confContext = None /\ confidence = None
    /\ fileSystem = None /\ violations = <<>>
    /\ report = None /\ previousReport = None
    /\ serviceGraph = None /\ changedNodeId = <<>> /\ impactReport = None
    /\ traversalRoot = <<>> /\ traversal = None /\ traversalResult = None

\* semantic = this.semantic.enrich(parsedFiles)
Enrich ==
    /\ pc = "parsed"
    /\ semantic' = enrich(Ast(project))
    /\ pc' = "enriched"
    /\ UNCHANGED <<confRule, confContext, confidence, simRuleId, simInput,
                   simulation, thrown, project, domainModel, rules,
                   fileSystem, violations, report, previousReport,
                   serviceGraph, changedNodeId, impactReport,
                   traversalRoot, traversal, traversalResult>>

\* domainModel = this.domain.build(semantic.nodes)
DomainBuild ==
    /\ pc = "enriched"
    /\ domainModel' = build(Ast(project), semantic)
    /\ pc' = "built"
    /\ UNCHANGED <<confRule, confContext, confidence, simRuleId, simInput,
                   simulation, thrown, project, semantic, rules,
                   fileSystem, violations, report, previousReport,
                   serviceGraph, changedNodeId, impactReport,
                   traversalRoot, traversal, traversalResult>>

\* rules = this.rules.extract({semanticNodes, domainEntities})
RulesExtract ==
    /\ pc = "built"
    /\ rules' = extract(Ast(project),
                        [semanticNodes |-> semantic,
                         domainEntities |-> domainModel.entities])
    /\ pc' = "extracted"
    /\ UNCHANGED <<confRule, confContext, confidence, simRuleId, simInput,
                   simulation, thrown, project, semantic, domainModel,
                   fileSystem, violations, report, previousReport,
                   serviceGraph, changedNodeId, impactReport,
                   traversalRoot, traversal, traversalResult>>

\* return this.impact.simulate(ruleId, {...}) for the ruleId of the caller
ImpactSimulate ==
    /\ pc = "extracted"
    /\ \E requested \in {rules[k].id : k \in 1..Len(rules)} \cup {UnknownRuleId} :
          LET input == [domainEntities |-> domainModel.entities,
                        businessRules |-> rules,
                        domainRelations |-> domainModel.relations]
              outcome == simulate(requested, input)
          IN  /\ simRuleId' = requested
              /\ simInput' = input
              /\ simulation' = outcome.result
              /\ thrown' = outcome.error
    /\ pc' = "done"
    /\ UNCHANGED <<confRule, confContext, confidence, project, semantic,
                   domainModel, rules,
                   fileSystem, violations, report, previousReport,
                   serviceGraph, changedNodeId, impactReport,
                   traversalRoot, traversal, traversalResult>>

Next == Enrich \/ DomainBuild \/ RulesExtract \/ ImpactSimulate

Spec == Init /\ [][Next]_vars

(***************************************************************************)
(* CoreEngine.analyze and CoreEngine.simulateRuleImpact from a directory   *)
(***************************************************************************)

\* A project root that does not exist, and one that does.
MissingPath == <<"/", "tmp", "/", "missing">>
ProjectPath == <<"/", "repo">>

\* A project root below a directory named build.
BuildRootPath == <<"/", "home", "/", "build", "/", "repo">>

\* A dependency below node_modules.
VendoredClass ==
    [name |-> <<"Vendor">>,
     file |-> <<"node_modules", "/", "vendor", "/", "index", ".ts">>,
     props |-> <<Property(<<"status">>, FALSE, TRUE)>>,
     method |-> [name |-> <<"ship">>, private |-> FALSE, params |-> <<>>],
     body |-> <<"condAssign">>]

InitAnalyze ==
    /\ pc = "start"
    /\ \/ fileSystem = [projectPath |-> MissingPath, rootExists |-> FALSE,
                        files |-> <<>>]
       \/ \E primary \in PrimaryClasses,
             others \in SeqUpTo({InvoiceClass, VendoredClass},
                                MaxClasses - 1),
             root \in {ProjectPath, BuildRootPath} :
             fileSystem = [projectPath |-> root, rootExists |-> TRUE,
                           files |-> <<primary>> \o others]
    /\ project = <<>> /\ semantic = <<>> /\ domainModel = None
    /\ rules = <<>> /\ violations = <<>>
    /\ report = None /\ previousReport = None
    /\ simRuleId = <<>> /\ simInput = None /\ simulation = None
    /\ thrown = <<>>
    /\ confRule = None /\ confContext = None /\ confidence = None
    /\ serviceGraph = None /\ changedNodeId = <<>> /\ impactReport = None
    /\ traversalRoot = <<>> /\ traversal = None /\ traversalResult = None

\* CoreEngine.analyze(projectPath), for the first and for the second time on
\* the same directory tree.
Analyze ==
    /\ pc \in {"start", "reported"}
    /\ \E parsedFiles \in {parseProject(fileSystem)} :
       \E ast \in {Ast(parsedFiles)} :
       \E nodes \in {enrich(ast)} :
       \E model \in {build(ast, nodes)} :
       \E extracted \in {extract(ast, [semanticNodes |-> nodes,
                                       domainEntities |-> model.entities])} :
       \E ruleAnalysis \in {[domainModel |-> model, rules |-> extracted]} :
       \E impact \in {buildInitialImpact(ruleAnalysis)} :
       \E found \in {analyze(ast, ruleAnalysis)} :
          /\ project' = parsedFiles
          /\ semantic' = nodes
          /\ domainModel' = model
          /\ rules' = extracted
          /\ simulation' = impact.result
          /\ thrown' = impact.error
          /\ violations' = found
          /\ report' = IF impact.error # <<>> THEN None
                       ELSE generate([entities |-> model.entities,
                                      relations |-> model.relations,
                                      rules |-> extracted,
                                      impact |-> impact.result,
                                      architecturalViolations |-> found])
    /\ previousReport' = report
    /\ pc' = IF pc = "start" THEN "reported" ELSE "reported twice"
    /\ UNCHANGED <<confRule, confContext, confidence, simRuleId, simInput,
                   fileSystem, serviceGraph, changedNodeId, impactReport,
                   traversalRoot, traversal, traversalResult>>

\* CoreEngine.simulateRuleImpact(projectPath, ruleId)
SimulateRuleImpact ==
    /\ pc = "start"
    /\ \E parsedFiles \in {parseProject(fileSystem)} :
       \E ast \in {Ast(parsedFiles)} :
       \E nodes \in {enrich(ast)} :
       \E model \in {build(ast, nodes)} :
       \E extracted \in {extract(ast, [semanticNodes |-> nodes,
                                       domainEntities |-> model.entities])} :
       \E input \in {[domainEntities |-> model.entities,
                      businessRules |-> extracted,
                      domainRelations |-> model.relations]} :
       \E requested \in {extracted[k].id : k \in 1..Len(extracted)}
                            \cup {UnknownRuleId} :
       \E outcome \in {simulate(requested, input)} :
          /\ project' = parsedFiles
          /\ semantic' = nodes
          /\ domainModel' = model
          /\ rules' = extracted
          /\ simRuleId' = requested
          /\ simInput' = input
          /\ simulation' = outcome.result
          /\ thrown' = outcome.error
    /\ pc' = "done"
    /\ UNCHANGED <<confRule, confContext, confidence, fileSystem, violations,
                   report, previousReport, serviceGraph, changedNodeId,
                   impactReport,
                   traversalRoot, traversal, traversalResult>>

NextAnalyze == Analyze \/ SimulateRuleImpact

SpecAnalyze == InitAnalyze /\ [][NextAnalyze]_vars

(***************************************************************************)
(* ArchitecturalAnalyzer.analyze on its own                                *)
(***************************************************************************)

\* Longest list of business rules handed to ArchitecturalAnalyzer.analyze.
MaxAnalyzedRules == 4

\* The rules handed to the analyzer: rules without entity, rules of an entity
\* named none and rules of the entity Order, in three files.
AnalyzedRules ==
    {SimRule("POLICY", entity, <<>>, filePath, 0) :
        entity \in {<<>>, <<"none">>, <<"Order">>},
        filePath \in {DomainPath, ControllerPath, ServicePath}}
    \cup {SimRule("INVARIANT", <<>>, <<>>, DomainPath, 0)}

InitArchitecture ==
    /\ pc = "architecture"
    /\ rules \in SeqUpTo(AnalyzedRules, MaxAnalyzedRules)
    /\ domainModel = [semanticNodes |-> <<>>, entities |-> <<>>,
                      relations |-> <<>>]
    /\ violations = <<>>
    /\ project = <<>> /\ semantic = <<>>
    /\ report = None /\ previousReport = None /\ fileSystem = None
    /\ simRuleId = <<>> /\ simInput = None /\ simulation = None
    /\ thrown = <<>>
    /\ confRule = None /\ confContext = None /\ confidence = None
    /\ serviceGraph = None /\ changedNodeId = <<>> /\ impactReport = None
    /\ traversalRoot = <<>> /\ traversal = None /\ traversalResult = None

\* violations = this.architecture.analyze(ruleAnalysis)
ArchitectureAnalyze ==
    /\ pc = "architecture"
    /\ violations' = analyze(project, [domainModel |-> domainModel,
                                       rules |-> rules])
    /\ pc' = "done"
    /\ UNCHANGED <<confRule, confContext, confidence, simRuleId, simInput,
                   simulation, thrown, project, semantic, domainModel, rules,
                   fileSystem, report, previousReport,
                   serviceGraph, changedNodeId, impactReport,
                   traversalRoot, traversal, traversalResult>>

NextArchitecture == ArchitectureAnalyze

SpecArchitecture == InitArchitecture /\ [][NextArchitecture]_vars

\* import ... from "<specifier>" at the top of a file.
ImportNode(file, specifier, start) ==
    [Node("ImportDeclaration", 0, start, start + 1, <<>>, specifier,
          <<>>, "", 0, 0, 0, 0) EXCEPT !.file = file]

\* Two infrastructure imports and one other import of a domain file, and an
\* infrastructure import of a controller.
ImportPool ==
    <<ImportNode(DomainPath, <<"..", "/", "infra", "/", "db">>, 0),
      ImportNode(DomainPath, <<"..", "/", "infra", "/", "mail">>, 2),
      ImportNode(DomainPath, <<".", "/", "money">>, 4),
      ImportNode(ControllerPath, <<"..", "/", "infra", "/", "db">>, 0)>>

\* Calls of a function of a domain file to two infrastructure targets and
\* to a collaborator, and a call of a method of the class Order.
CallPool ==
    <<[from |-> DomainPath \o <<"#", "sync">>,
       to |-> <<"infra", ".", "save">>, type |-> "CALLS"],
      [from |-> DomainPath \o <<"#", "sync">>,
       to |-> <<"infra", ".", "load">>, type |-> "CALLS"],
      [from |-> DomainPath \o <<"#", "sync">>,
       to |-> <<"repo", ".", "save">>, type |-> "CALLS"],
      [from |-> <<"Order", ".", "ship">>,
       to |-> <<"infra", ".", "save">>, type |-> "CALLS"]>>

\* The members of a list at the picked positions, in the order of the list.
SubList(list, picked) ==
    LET Pick[i \in 0..Len(list)] ==
            IF i = 0 THEN <<>>
            ELSE IF i \in picked THEN Append(Pick[i - 1], list[i])
            ELSE Pick[i - 1]
    IN  Pick[Len(list)]

\* The analyzer on a model with relations and import declarations.
InitArchitectureGraph ==
    /\ pc = "architecture"
    /\ rules \in SeqUpTo(AnalyzedRules, 1)
    /\ \E imports \in SUBSET (1..Len(ImportPool)) :
          project = SubList(ImportPool, imports)
    /\ \E calls \in SUBSET (1..Len(CallPool)) :
          domainModel = [semanticNodes |-> enrich(project),
                         entities |-> <<>>,
                         relations |-> SubList(CallPool, calls)]
    /\ violations = <<>>
    /\ semantic = <<>>
    /\ report = None /\ previousReport = None /\ fileSystem = None
    /\ simRuleId = <<>> /\ simInput = None /\ simulation = None
    /\ thrown = <<>>
    /\ confRule = None /\ confContext = None /\ confidence = None
    /\ serviceGraph = None /\ changedNodeId = <<>> /\ impactReport = None
    /\ traversalRoot = <<>> /\ traversal = None /\ traversalResult = None

SpecArchitectureGraph == InitArchitectureGraph /\ [][NextArchitecture]_vars

(***************************************************************************)
(* ImpactSimulationEngine.simulate of the service path on its own          *)
(***************************************************************************)

GraphNode(id, type) == [id |-> id, type |-> type, label |-> <<id>>]

\* The nodes of the graphs: the changed node n0 and six others.
GraphNodes ==
    <<GraphNode("n0", "BusinessRule"), GraphNode("n1", "Function"),
      GraphNode("n2", "Class"), GraphNode("n3", "Endpoint"),
      GraphNode("n4", "Table"), GraphNode("n5", "DomainEntity"),
      GraphNode("n6", "File")>>

GraphEdge(from, to) == [from |-> from, to |-> to, type |-> "depends_on"]

\* The edges a graph is made of: a chain from n0 to n6, in both directions
\* of dependency, and shortcuts.  The edge to n9 has no node behind it.
CandidateEdges ==
    <<GraphEdge("n0", "n1"), GraphEdge("n2", "n1"), GraphEdge("n2", "n3"),
      GraphEdge("n4", "n3"), GraphEdge("n4", "n5"), GraphEdge("n5", "n6"),
      GraphEdge("n0", "n2"), GraphEdge("n1", "n4"), GraphEdge("n0", "n9"),
      GraphEdge("n0", "n0")>>

InitService ==
    /\ pc = "service"
    /\ \E picked \in SUBSET (1..Len(CandidateEdges)) :
          serviceGraph =
              [nodes |-> MapFromEntries(
                             [k \in 1..Len(GraphNodes) |->
                                 <<GraphNodes[k].id, GraphNodes[k]>>],
                             EmptyMap),
               edges |-> SelectSeq(CandidateEdges,
                                   LAMBDA edge :
                                       \E k \in picked :
                                           CandidateEdges[k] = edge)]
    /\ changedNodeId = <<"n0">>
    /\ impactReport = None
    /\ project = <<>> /\ semantic = <<>> /\ domainModel = None
    /\ rules = <<>> /\ violations = <<>>
    /\ report = None /\ previousReport = None /\ fileSystem = None
    /\ simRuleId = <<>> /\ simInput = None /\ simulation = None
    /\ thrown = <<>>
    /\ confRule = None /\ confContext = None /\ confidence = None
    /\ traversalRoot = <<>> /\ traversal = None /\ traversalResult = None

\* engine.simulate({ changedNodeId })
ServiceSimulate ==
    /\ pc = "service"
    /\ impactReport' = serviceSimulate(serviceGraph.nodes, serviceGraph.edges,
                                       [changedNodeId |-> changedNodeId[1]])
    /\ pc' = "done"
    /\ UNCHANGED <<confRule, confContext, confidence, simRuleId, simInput,
                   simulation, thrown, project, semantic, domainModel, rules,
                   fileSystem, violations, report, previousReport,
                   serviceGraph, changedNodeId,
                   traversalRoot, traversal, traversalResult>>

NextService == ServiceSimulate

SpecService == InitService /\ [][NextService]_vars

(***************************************************************************)
(* GraphTraversal.impactedSubgraph, one loop iteration at a time           *)
(***************************************************************************)

\* Longest chain of relations below the root in the traversed graphs.
MaxChain == 6

TraversalNode(i) == <<"n", ToString(i)>>

TraversalRoot == TraversalNode(0)

\* The identifiers a traversal is started from.
TraversalRoots == {TraversalRoot, TraversalNode(1), TraversalNode(3)}

ChainType(i) ==
    IF i % 3 = 1 THEN "CALLS" ELSE IF i % 3 = 2 THEN "DEPENDS_ON" ELSE "MODIFIES"

\* n0 -> n1 -> ... -> n(len), the types alternating over the traversed ones.
ChainRelations(len) ==
    [i \in 1..len |->
        [from |-> TraversalNode(i - 1), to |-> TraversalNode(i),
         type |-> ChainType(i)]]

\* Relations beside the chain: a USES edge and what lies behind it, a
\* shortcut, a cycle back to the root, a self-loop and a branch at the end.
SideRelations ==
    <<[from |-> TraversalRoot, to |-> <<"u">>, type |-> "USES"],
      [from |-> <<"u">>, to |-> <<"v">>, type |-> "CALLS"],
      [from |-> TraversalRoot, to |-> TraversalNode(3), type |-> "CALLS"],
      [from |-> TraversalNode(3), to |-> TraversalRoot, type |-> "DEPENDS_ON"],
      [from |-> TraversalNode(1), to |-> TraversalNode(1), type |-> "CALLS"],
      [from |-> TraversalNode(5), to |-> <<"w">>, type |-> "MODIFIES"]>>

SelectedRelations(picked) ==
    LET Pick[i \in 0..Len(SideRelations)] ==
            IF i = 0 THEN <<>>
            ELSE IF i \in picked THEN Append(Pick[i - 1], SideRelations[i])
            ELSE Pick[i - 1]
    IN  Pick[Len(SideRelations)]

InitTraversal ==
    /\ pc = "traversing"
    /\ \E len \in 0..MaxChain : \E picked \in SUBSET (1..Len(SideRelations)) :
          simInput = [domainEntities |-> <<>>, businessRules |-> <<>>,
                      domainRelations |-> SelectedRelations(picked)
                                          \o ChainRelations(len)]
    /\ \E root \in TraversalRoots :
          /\ traversalRoot = root
          /\ traversal = traversalStart(root)
    /\ traversalResult = None
    /\ confRule = None /\ confContext = None /\ confidence = None
    /\ simRuleId = <<>> /\ simulation = None /\ thrown = <<>>
    /\ project = None /\ semantic = None /\ domainModel = None
    /\ rules = <<>> /\ fileSystem = None /\ violations = <<>>
    /\ report = None /\ previousReport = None
    /\ serviceGraph = None /\ changedNodeId = <<>> /\ impactReport = None

\* while (queue.length > 0) { ... }: one iteration.
TraverseIteration ==
    /\ pc = "traversing"
    /\ traversal.queue # <<>>
    /\ traversal' = traverseStep(buildGraph(simInput), traversal)
    /\ UNCHANGED <<pc, confRule, confContext, confidence, simRuleId, simInput,
                   simulation, thrown, project, semantic, domainModel, rules,
                   fileSystem, violations, report, previousReport,
                   serviceGraph, changedNodeId, impactReport,
                   traversalRoot, traversalResult>>

\* The loop is left with an empty queue: return { directFanOut, ... }.
TraverseReturn ==
    /\ pc = "traversing"
    /\ traversal.queue = <<>>
    /\ traversalResult' = subgraphOf(traversal)
    /\ pc' = "done"
    /\ UNCHANGED <<confRule, confContext, confidence, simRuleId, simInput,
                   simulation, thrown, project, semantic, domainModel, rules,
                   fileSystem, violations, report, previousReport,
                   serviceGraph, changedNodeId, impactReport,
                   traversalRoot, traversal>>

NextTraversal == TraverseIteration \/ TraverseReturn

SpecTraversal == InitTraversal /\ [][NextTraversal]_vars

\* The loop is synchronous code: once entered, its next iteration always runs.
FairSpecTraversal == SpecTraversal /\ WF_vars(NextTraversal)

(***************************************************************************)
(* Properties                                                              *)
(***************************************************************************)

\* C1: for every rule type and every combination of the nine context flags,
\* calculateConfidence returns a value in [0,1] that is a whole number of
\* hundredths.
ConfidenceInUnitHundredths ==
    pc = "done" =>
        /\ InUnitInterval(confidence)
        /\ IsHundredths(confidence)

\* calculateConfidence has run on a context whose only flag is inController:
\* the sum is -0.2 before the clamp and the confidence returned is 0.
ConfidenceClampedAtZero ==
    /\ pc = "done"
    /\ \A flag \in ContextFlags : confContext[flag] <=> (flag = "inController")
    /\ confidence = Dec(0)

\* C2: for every input and every known rule id, simulate returns a
\* globalRiskScore in [0,1] that is a whole number of hundredths.
GlobalRiskScoreInUnitHundredths ==
    simulation # None =>
        /\ InUnitInterval(simulation.globalRiskScore)
        /\ IsHundredths(simulation.globalRiskScore)

\* simulate has returned for a rule with an owning entity whose root reaches
\* two nodes or more, at depth two or more, with a score strictly inside (0,1).
ScoredDeepFanOut ==
    /\ simulation # None
    /\ simulation.rootRule.entity # <<>>
    /\ simulation.explanation.fanOut >= 2
    /\ simulation.explanation.callDepth >= 2
    /\ RLt(Dec(0), simulation.globalRiskScore)
    /\ RLt(simulation.globalRiskScore, Dec(100))

\* C3: the relation list returned by DomainModelBuilder.build never holds two
\* relations with the same (type, from, to).
NoDuplicateRelations ==
    domainModel # None =>
        \A i, j \in 1..Len(domainModel.relations) :
            (/\ domainModel.relations[i].type = domainModel.relations[j].type
             /\ domainModel.relations[i].from = domainModel.relations[j].from
             /\ domainModel.relations[i].to = domainModel.relations[j].to)
            => i = j

\* build has run on an entity whose method assigns this.status twice: the
\* per-entity loop and the loop over all assignments produce the same
\* MODIFIES relation four times and the list holds it once.
SameModifiesProducedTwice ==
    /\ domainModel # None
    /\ Len(project) = 1
    /\ project[1].body = <<"assignState", "assignState">>
    /\ Len(domainModel.entities) = 1
    /\ Len(domainModel.relations) = 1
    /\ domainModel.relations[1].type = "MODIFIES"

\* C4: no class whose name ends with Controller, Service, Repository, Adapter
\* or Gateway is among the entities returned by DomainModelBuilder.build.
NoTechnicalEntity ==
    domainModel # None =>
        \A k \in 1..Len(domainModel.entities) :
            \A suffix \in {"Controller", "Service", "Repository", "Adapter",
                           "Gateway"} :
                ~endsWith(domainModel.entities[k].name, <<suffix>>)

\* build has run on a class OrderService that has a mutable enum property
\* assigned by its method, and has returned no entity.
TechnicalClassLeftOut ==
    /\ domainModel # None
    /\ Len(project) = 1
    /\ project[1].name = <<"Order", "Service">>
    /\ project[1].props = <<Property(<<"status">>, FALSE, TRUE)>>
    /\ project[1].body = <<"assignState">>
    /\ domainModel.entities = <<>>

\* The rules of type STATE_TRANSITION among the extracted rules.
StateTransitions ==
    {k \in 1..Len(rules) : rules[k].type = "STATE_TRANSITION"}

\* The field named by the condition '<field> assignment' of a rule.
ConditionField(rule) == SubSeq(rule.condition, 1, Len(rule.condition) - 1)

\* C5: every STATE_TRANSITION rule emitted by extract names an entity of the
\* entities passed to extract, its condition reads '<field> assignment', and
\* the field is one of the stateFields of that entity.
StateTransitionsNameStateFields ==
    pc \in {"extracted", "done"} =>
        \A k \in StateTransitions :
            /\ rules[k].condition # <<>>
            /\ rules[k].condition[Len(rules[k].condition)] = " assignment"
            /\ \E e \in 1..Len(domainModel.entities) :
                  /\ domainModel.entities[e].name = rules[k].entity
                  /\ ConditionField(rules[k])
                        \in Range(domainModel.entities[e].stateFields)

\* extract has run on an entity whose method assigns this.total, which is no
\* state field, and this.status, which is one, and has emitted a
\* STATE_TRANSITION rule.
StateTransitionBesideOtherField ==
    /\ pc = "extracted"
    /\ Len(project) = 1
    /\ project[1].body = <<"compoundTotal", "assignState">>
    /\ Len(domainModel.entities) = 1
    /\ StateTransitions # {}

\* The project is the single class Order of scenario S2: one property status
\* that is not readonly, whose type is an enum or not as given, and one
\* method whose body is the assignment this.status = "SHIPPED" alone.
IsScenarioS2(enum) ==
    /\ Len(project) = 1
    /\ project[1].name = <<"Order">>
    /\ project[1].props = <<Property(<<"status">>, FALSE, enum)>>
    /\ project[1].body = <<"assignState">>

\* Exactly one entity Order with stateFields = [status], and exactly one
\* STATE_TRANSITION rule, of entity Order and the method of the class, with
\* confidence >= 0.65.
YieldsOrderAndItsTransition ==
    /\ Len(domainModel.entities) = 1
    /\ domainModel.entities[1].name = <<"Order">>
    /\ domainModel.entities[1].stateFields = <<<<"status">>>>
    /\ Cardinality(StateTransitions) = 1
    /\ \A k \in StateTransitions :
          /\ rules[k].entity = <<"Order">>
          /\ rules[k].method = project[1].method.name
          /\ RLeq(Dec(65), rules[k].confidence)

\* C6 as stated: a class Order with one non-readonly, non-enum property
\* status and a method ship() that only assigns this.status, without a
\* conditional anywhere, yields exactly one entity Order with
\* stateFields = [status] and one STATE_TRANSITION rule of entity Order and
\* method ship with confidence >= 0.65.
S2WithoutConditionalSignal ==
    (/\ pc \in {"extracted", "done"}
     /\ IsScenarioS2(FALSE)
     /\ project[1].method.name = <<"ship">>
     /\ ~project[1].method.private)
    => YieldsOrderAndItsTransition

\* C6: a class Order with one non-readonly property status whose type is an
\* enum and one public method that only assigns this.status, in a file whose
\* path does not contain "controller", yields exactly one entity Order with
\* stateFields = [status] and exactly one STATE_TRANSITION rule, of entity
\* Order and that method, with confidence >= 0.65.
S2WithEnumState ==
    (/\ pc \in {"extracted", "done"}
     /\ IsScenarioS2(TRUE)
     /\ ~project[1].method.private
     /\ ~includes(toLowerCase(project[1].file), <<"controller">>))
    => YieldsOrderAndItsTransition

\* The pipeline has extracted the rules of the class Order of S2 with an enum
\* status and the public method ship(): one STATE_TRANSITION rule of
\* confidence 0.75.
S2EnumShipExtracted ==
    /\ pc = "extracted"
    /\ IsScenarioS2(TRUE)
    /\ project[1].method.name = <<"ship">>
    /\ project[1].file = DomainPath
    /\ Cardinality(StateTransitions) = 1
    /\ \A k \in StateTransitions : rules[k].confidence = Dec(75)

\* The statement is a return statement or contains one.
Returns(ast, statement) ==
    ast[statement].kind = "ReturnStatement" \/ hasReturn(ast, statement)

\* The if statements with an else branch, inside a method of a class that is
\* no domain entity, whose two branches both return.
ReturningIfElses(ast) ==
    {i \in 1..Len(ast) :
        /\ ast[i].kind = "IfStatement"
        /\ ast[i].elseStatement # 0
        /\ getFirstAncestorByKind(ast, i, "MethodDeclaration") # 0
        /\ \A e \in 1..Len(domainModel.entities) :
              domainModel.entities[e].name #
                  ast[getFirstAncestorByKind(ast, i, "ClassDeclaration")].name
        /\ Returns(ast, ast[i].thenStatement)
        /\ Returns(ast, ast[i].elseStatement)}

\* The rules anchored at a node: same file and same span.
RulesAnchoredAt(ast, i) ==
    {k \in 1..Len(rules) :
        /\ rules[k].filePath = ast[i].file
        /\ rules[k].astLocation = [start |-> ast[i].start, end |-> ast[i].end]}

\* C7: for an if statement with an else branch inside a method of a class
\* that is no domain entity, where both branches return, extract emits
\* exactly one rule anchored at that if, of type POLICY and of confidence at
\* most 0.60.
S4ReturningIfElseIsPolicy ==
    pc \in {"extracted", "done"} =>
        LET ast == Ast(project)
        IN  \A i \in ReturningIfElses(ast) :
                /\ Cardinality(RulesAnchoredAt(ast, i)) = 1
                /\ \A k \in RulesAnchoredAt(ast, i) :
                      /\ rules[k].type = "POLICY"
                      /\ RLeq(rules[k].confidence, Dec(60))

\* The identifiers of the impacted nodes, in the order of the list.
ImpactedIds == [i \in 1..Len(simulation.impactedNodes) |->
                   simulation.impactedNodes[i].id]

\* C8: in every result of simulate the first impacted node is the root rule
\* (id = rootRule.id, type RULE), no other element has that id, no identifier
\* occurs twice, the elements after the first ascend by identifier, and every
\* riskScore equals globalRiskScore.
ImpactedNodesRootFirstSorted ==
    simulation # None =>
        /\ Len(ImpactedIds) >= 1
        /\ ImpactedIds[1] = simulation.rootRule.id
        /\ simulation.impactedNodes[1].type = "RULE"
        /\ \A i \in 2..Len(ImpactedIds) :
              ImpactedIds[i] # simulation.rootRule.id
        /\ \A i, j \in 1..Len(ImpactedIds) :
              ImpactedIds[i] = ImpactedIds[j] => i = j
        /\ \A i, j \in 2..Len(ImpactedIds) :
              i < j => localeCompare(ImpactedIds[i], ImpactedIds[j]) < 0
        /\ \A i \in 1..Len(ImpactedIds) :
              simulation.impactedNodes[i].riskScore =
                  simulation.globalRiskScore

\* simulate has returned for a rule without entity and method, whose root
\* node is the rule id itself and is therefore among the visited nodes, with
\* two impacted nodes or more besides the root.
RootIdAmongVisited ==
    /\ simulation # None
    /\ simulation.rootRule.entity = <<>>
    /\ simulation.rootRule.method = <<>>
    /\ Len(simulation.impactedNodes) >= 3

\* C9: for every rule without an owning entity, simulate returns a
\* globalRiskScore >= 0.85.
NoEntityScoreAtLeastFloor ==
    (simulation # None /\ simulation.rootRule.entity = <<>>)
    => RLeq(Dec(85), simulation.globalRiskScore)

\* simulate has returned for a lone CALCULATION rule without entity and
\* without relations: the weighted sum is 0.52 and the score is 0.85.
LoneCalculationRaisedToFloor ==
    /\ simulation # None
    /\ Len(simInput.businessRules) = 1
    /\ simInput.domainRelations = <<>>
    /\ simulation.rootRule.type = "CALCULATION"
    /\ simulation.rootRule.entity = <<>>
    /\ simulation.rootRule.filePath = DomainPath
    /\ simulation.globalRiskScore = Dec(85)

\* The positions of the rules of the input that have the requested id.
RequestedRules ==
    {k \in 1..Len(simInput.businessRules) :
        simInput.businessRules[k].id = simRuleId}

\* C10: simulate with a ruleId that no rule of input.businessRules has fails
\* with an error whose message names that ruleId and returns no result; with
\* a ruleId that is present it returns a result whose rootRule is the rule
\* with that id (the last one in the list).
UnknownRuleIdIsFatal ==
    pc = "done" =>
        IF RequestedRules = {}
        THEN /\ thrown # <<>>
             /\ includes(thrown, simRuleId)
             /\ simulation = None
        ELSE /\ thrown = <<>>
             /\ simulation # None
             /\ simulation.rootRule.id = simRuleId
             /\ \E k \in RequestedRules :
                   /\ \A other \in RequestedRules : other <= k
                   /\ simulation.rootRule = simInput.businessRules[k]

\* simulate has thrown for an id that none of the rules of a non-empty list
\* has.
UnknownRuleIdThrown ==
    /\ pc = "done"
    /\ Len(simInput.businessRules) >= 1
    /\ RequestedRules = {}
    /\ thrown = ruleNotFound(simRuleId)

\* C11: analyze and simulateRuleImpact on a project root that does not exist
\* abort with an error that names the path, and return no report.
MissingRootIsFatal ==
    (pc \in {"reported", "done"} /\ ~fileSystem.rootExists)
        => /\ includes(thrown, fileSystem.projectPath)
           /\ report = None

\* C12: in the report of analyze, impact is null exactly when no rule was
\* extracted; otherwise it is the simulation of the first rule over the
\* entities, rules and relations of the run, which never fails; and the
\* entities, relations, rules and violations of the report are the values of
\* the earlier stages.
ReportSeededWithFirstRule ==
    pc \in {"reported", "reported twice"} =>
        /\ thrown = <<>>
        /\ report # None
        /\ report.impact = None <=> rules = <<>>
        /\ rules # <<>> =>
              /\ report.impact.rootRule = rules[1]
              /\ report.impact =
                     simulate(rules[1].id,
                              [domainEntities |-> domainModel.entities,
                               businessRules |-> rules,
                               domainRelations |-> domainModel.relations]).result
        /\ report.entities = domainModel.entities
        /\ report.relations = domainModel.relations
        /\ report.rules = rules
        /\ report.architecturalViolations = violations

\* C12 witness: a report over two rules or more with its seeded impact, and
\* a report without rules.
ReportOverSeveralRules ==
    /\ pc = "reported"
    /\ Len(rules) >= 2
    /\ report.impact # None
    /\ report.impact.rootRule.id = rules[1].id
    /\ report.architecturalViolations # <<>>

ScatteredViolations == SelectSeq(violations, LAMBDA v : v.type = "SCATTERED_RULE")

\* The distinct file paths of the rules of entity e (<<>> for none) and type.
GroupFiles(entity, type) ==
    {rules[k].filePath :
        k \in {j \in 1..Len(rules) :
                  rules[j].entity = entity /\ rules[j].type = type}}

\* The (entity, type) groups whose rules lie in three files or more.
ScatteredGroups ==
    {g \in {<<rules[k].entity, rules[k].type>> : k \in 1..Len(rules)} :
        Cardinality(GroupFiles(g[1], g[2])) >= 3}

\* C14: analyze emits exactly one SCATTERED_RULE violation for each
\* (entity, type) group whose rules lie in three or more distinct files, with
\* relatedIds the distinct file paths of the group, each once, and none for a
\* group of fewer than three files.
OneScatteredRulePerGroup ==
    pc = "done" =>
        /\ Len(ScatteredViolations) = Cardinality(ScatteredGroups)
        /\ \A g \in ScatteredGroups :
              \E k \in 1..Len(ScatteredViolations) :
                 /\ Range(ScatteredViolations[k].relatedIds)
                        = GroupFiles(g[1], g[2])
                 /\ Len(ScatteredViolations[k].relatedIds)
                        = Cardinality(GroupFiles(g[1], g[2]))
        /\ \A k \in 1..Len(ScatteredViolations) :
              \E g \in ScatteredGroups :
                 Range(ScatteredViolations[k].relatedIds)
                     = GroupFiles(g[1], g[2])

\* C14, restricted: the statement of C14 for rule lists in which no entity is
\* named none.
OneScatteredRulePerGroupUnlessNamedNone ==
    (\A k \in 1..Len(rules) : rules[k].entity # <<"none">>)
        => OneScatteredRulePerGroup

\* C15: no two entities returned by build have the same name.
EntityNamesUnique ==
    domainModel # None =>
        \A i, j \in 1..Len(domainModel.entities) :
            domainModel.entities[i].name = domainModel.entities[j].name
                => i = j

\* The nodes joined to n by an edge, in either direction.
Neighbours(n) ==
    {e.to : e \in {x \in Range(serviceGraph.edges) : x.from = n}}
    \cup {e.from : e \in {x \in Range(serviceGraph.edges) : x.to = n}}

\* The node ids within k edges of the changed node.
RECURSIVE Within(_)
Within(k) ==
    IF k = 0 THEN {changedNodeId[1]}
    ELSE Within(k - 1) \cup UNION {Neighbours(n) : n \in Within(k - 1)}

\* The nodes of the graph at a distance between lo and hi of the changed
\* node.
NodesAtDistance(lo, hi) ==
    {node \in Range(MapValues(serviceGraph.nodes)) :
        node.id \in Within(hi) \ Within(lo - 1)}

\* C16: the service-path simulate reports as directImpacts the nodes at
\* distance exactly 1 of the changed node and as indirectImpacts the nodes at
\* distance 2 or 3; no node at distance 4 or more is reported.
ImpactsWithinDepthThree ==
    pc = "done" /\ impactReport # None =>
        /\ Range(impactReport.directImpacts) = NodesAtDistance(1, 1)
        /\ Range(impactReport.indirectImpacts) = NodesAtDistance(2, 3)

\* The names of the non-readonly properties a class declares.
MutableProperties(decl) ==
    {decl.props[k].name :
        k \in {j \in 1..Len(decl.props) : ~decl.props[j].readonly}}

\* The fields f that a statement assigns as this.f, with = or a compound
\* operator.
FieldsAssignedBy(statement) ==
    {statement.nodes[statement.nodes[b].left].name :
        b \in {i \in 1..Len(statement.nodes) :
                  /\ statement.nodes[i].op \in {"=", "+=", "-=", "*=", "/=", "%="}
                  /\ statement.nodes[i].left # 0
                  /\ statement.nodes[statement.nodes[i].left].kind
                         = "PropertyAccessExpression"
                  /\ statement.nodes[statement.nodes[i].left].expr
                         = <<"this">>}}

\* The four conditions of entity qualification, read off the declaration.
QualifiesAsStated(decl) ==
    /\ \A suffix \in {"Controller", "Service", "Repository", "Adapter",
                      "Gateway"} : ~endsWith(decl.name, <<suffix>>)
    /\ MutableProperties(decl) # {}
    /\ \E k \in 1..Len(decl.body) :
          FieldsAssignedBy(Statement(decl.body[k]))
              \cap MutableProperties(decl) # {}
    /\ \/ \E k \in 1..Len(decl.props) : decl.props[k].enum
       \/ \E k \in 1..Len(decl.body) :
             \E i \in 1..Len(Statement(decl.body[k]).nodes) :
                Statement(decl.body[k]).nodes[i].kind = "IfStatement"

\* The state fields of a class as stated: the mutable properties among the
\* fields its method assigns.
StateFieldsAsStated(decl) ==
    MutableProperties(decl)
        \cap UNION {FieldsAssignedBy(Statement(decl.body[k])) :
                       k \in 1..Len(decl.body)}

\* C17: build puts a class among the entities iff its name has no technical
\* suffix, it declares a non-readonly property, one of its methods assigns
\* this.<field> for one of its non-readonly properties, and it has an
\* enum-typed property or an if in a method; and every entity has a
\* non-empty stateFields, the mutable properties among the assigned fields.
EntityIffQualified ==
    domainModel # None =>
        /\ \A i \in 1..Len(project) :
              QualifiesAsStated(project[i]) <=>
                  \E k \in 1..Len(domainModel.entities) :
                     /\ domainModel.entities[k].name = project[i].name
                     /\ domainModel.entities[k].filePath = project[i].file
                     /\ Range(domainModel.entities[k].stateFields)
                            = StateFieldsAsStated(project[i])
        /\ \A k \in 1..Len(domainModel.entities) :
              domainModel.entities[k].stateFields # <<>>

\* C18: every MODIFIES relation returned by build goes from <Class>.<method>
\* to <Class>.<field> where Class is one of the entities, method one of its
\* methods and field one of its stateFields.
ModifiesOnlyStateFields ==
    domainModel # None =>
        \A r \in 1..Len(domainModel.relations) :
            domainModel.relations[r].type = "MODIFIES" =>
                \E k \in 1..Len(domainModel.entities) :
                    LET entity == domainModel.entities[k]
                    IN  /\ \E m \in 1..Len(entity.methods) :
                              domainModel.relations[r].from
                                  = entity.name \o <<".">> \o entity.methods[m]
                        /\ \E f \in 1..Len(entity.stateFields) :
                              domainModel.relations[r].to
                                  = entity.name \o <<".">>
                                        \o entity.stateFields[f]

\* The entity that extract looks up for the class around a node: the last
\* entity of that name, None when there is none.
OwningEntity(ast, i) ==
    LET className ==
            ast[getFirstAncestorByKind(ast, i, "ClassDeclaration")].name
        named == {k \in 1..Len(domainModel.entities) :
                     domainModel.entities[k].name = className}
    IN  IF named = {} THEN None
        ELSE domainModel.entities[CHOOSE k \in named : \A j \in named : j <= k]

\* The type of the rule expected at an if statement: the first of INVARIANT
\* (a throw or a return inside the then-branch), CONTEXT_RESTRICTION and
\* POLICY whose test matches; "" when none does.
ExpectedIfRuleType(ast, i) ==
    IF \/ hasThrow(ast, ast[i].thenStatement)
       \/ hasReturn(ast, ast[i].thenStatement)
    THEN "INVARIANT"
    ELSE IF detectContextRestriction(ast, i, OwningEntity(ast, i))
    THEN "CONTEXT_RESTRICTION"
    ELSE IF detectPolicy(ast, i) THEN "POLICY"
    ELSE ""

IntMin(a, b) == IF a <= b THEN a ELSE b
IntMax(a, b) == IF a >= b THEN a ELSE b

\* The points, in hundredths, that each additive flag is worth.
FlagPoints ==
    [inDomainEntity |-> 25, mutatesStateField |-> 25, hasExplicitThrow |-> 15,
     inPublicMethod |-> 10, usesStateEnum |-> 10,
     outsideControllerInfra |-> 10, strongStructuralPattern |-> 5]

RECURSIVE PointsOf(_, _)
PointsOf(flags, context) ==
    IF flags = {} THEN 0
    ELSE LET flag == CHOOSE f \in flags : TRUE
         IN  (IF context[flag] THEN FlagPoints[flag] ELSE 0)
             + PointsOf(flags \ {flag}, context)

\* The reference confidence in hundredths: the sum of the points, capped at
\* 60 outside a domain entity, then less 20 in a controller, then capped at
\* 70 for an isolated CALCULATION, then clamped to [0, 100].
ReferenceHundredths(type, context) ==
    LET sum == PointsOf(DOMAIN FlagPoints, context)
        capped == IF ~context.inDomainEntity THEN IntMin(sum, 60) ELSE sum
        penalised == IF context.inController THEN capped - 20 ELSE capped
        isolated == IF type = "CALCULATION" /\ context.isolatedCalculation
                    THEN IntMin(penalised, 70) ELSE penalised
    IN  IntMax(0, IntMin(100, isolated))

\* C20: for every rule type and every combination of the nine flags,
\* calculateConfidence equals the reference in hundredths; so a rule outside
\* a domain entity never has a confidence above 0.60.
ConfidenceEqualsReference ==
    pc = "done" =>
        /\ confidence.d * ReferenceHundredths(confRule.type, confContext)
               = confidence.n * 100
        /\ ~confContext.inDomainEntity => RLeq(confidence, Dec(60))

\* C20 witness: calculateConfidence has run on a context outside a domain
\* entity and inside a controller whose other additive flags are all set:
\* the sum 0.75 is capped at 0.60 and the penalty leaves 0.40.
CappedThenPenalised ==
    /\ pc = "done"
    /\ ~confContext.inDomainEntity
    /\ confContext.inController
    /\ \A flag \in DOMAIN FlagPoints \ {"inDomainEntity"} : confContext[flag]
    /\ confidence = Dec(40)

\* The node a rule is anchored at: an if statement for the three types of
\* rule of an if, a binary expression for the two others, in the file and
\* with the span of the rule.
AnchorsOf(ast, k) ==
    {i \in 1..Len(ast) :
        /\ ast[i].kind = (IF rules[k].type \in {"STATE_TRANSITION", "CALCULATION"}
                          THEN "BinaryExpression" ELSE "IfStatement")
        /\ ast[i].file = rules[k].filePath
        /\ rules[k].astLocation = [start |-> ast[i].start, end |-> ast[i].end]}

\* A throw statement lies inside the span of the node.
ThrowInRegion(ast, i) ==
    \E n \in 1..Len(ast) :
        /\ ast[n].kind = "ThrowStatement"
        /\ ast[n].file = ast[i].file
        /\ ast[i].start <= ast[n].start
        /\ ast[n].end <= ast[i].end

\* The context of the rule k anchored at node i, with the explicit-throw flag
\* as stated: set iff a throw lies inside the region of the rule.
ContextWithRegionThrow(ast, k, i) ==
    LET method == getFirstAncestorByKind(ast, i, "MethodDeclaration")
        entity == OwningEntity(ast, i)
    IN  createContext(ast, rules[k], i, method, entity,
                      IF rules[k].type = "STATE_TRANSITION" THEN TRUE
                      ELSE IF rules[k].type = "CALCULATION" THEN FALSE
                      ELSE hasStateMutation(ast, method, entity),
                      ThrowInRegion(ast, i),
                      usesEnumState(ast, i),
                      IF rules[k].type = "CALCULATION"
                      THEN isIsolatedCalculation(ast, i) ELSE FALSE)

\* C21: a rule receives the +0.15 explicit-throw contribution iff a throw
\* statement lies inside the span of the if or binary expression the rule is
\* anchored at: its confidence is the one of a context whose hasExplicitThrow
\* flag is set exactly then, even when another statement of the method throws.
ThrowBonusOnlyForRegion ==
    pc \in {"extracted", "done"} =>
        LET ast == Ast(project)
        IN  \A k \in 1..Len(rules) :
                \A i \in AnchorsOf(ast, k) :
                    rules[k].confidence =
                        calculateConfidence(rules[k],
                                            ContextWithRegionThrow(ast, k, i))

\* Identifiers reachable from the root in at most k steps along outgoing
\* relations of a traversed type, by the definition of distance.
RECURSIVE WithinDistance(_, _, _)
WithinDistance(relations, root, k) ==
    IF k = 0 THEN {root}
    ELSE UNION {nearer \cup
                {relations[j].to : j \in {x \in 1..Len(relations) :
                    /\ relations[x].type \in {"CALLS", "DEPENDS_ON", "MODIFIES"}
                    /\ relations[x].from \in nearer}} :
                nearer \in {WithinDistance(relations, root, k - 1)}}

LargestDistance(relations, root) ==
    CHOOSE k \in 0..5 :
        /\ WithinDistance(relations, root, k) = WithinDistance(relations, root, 5)
        /\ \A j \in 0..(k - 1) :
              WithinDistance(relations, root, j) # WithinDistance(relations, root, 5)

\* C22: impactedSubgraph visits exactly the identifiers at distance at most 5
\* from the root along outgoing CALLS, DEPENDS_ON and MODIFIES relations;
\* direct is the set at distance 1, indirect the set at distance 2 to 5, the
\* two are disjoint and without the root, and callDepth is the largest
\* distance of a visited identifier.
SubgraphIsDistanceBall ==
    pc = "done" /\ traversalResult # None =>
        LET relations == simInput.domainRelations
            ball(k) == WithinDistance(relations, traversalRoot, k)
        IN  /\ traversalResult.impactedNodeIds = ball(5)
            /\ traversal.direct = ball(1) \ {traversalRoot}
            /\ traversal.indirect = ball(5) \ ball(1)
            /\ traversal.direct \cap traversal.indirect = {}
            /\ traversalRoot \notin traversal.direct \cup traversal.indirect
            /\ traversalResult.directFanOut = Cardinality(ball(1) \ {traversalRoot})
            /\ traversalResult.indirectFanOut = Cardinality(ball(5) \ ball(1))
            /\ traversalResult.callDepth = LargestDistance(relations, traversalRoot)
            /\ traversalResult.callDepth <= 5
            /\ traversalResult
                 = impactedSubgraph(buildGraph(simInput), traversalRoot)

\* A graph with an identifier at distance 6, one behind a USES relation and a
\* cycle through the root has been traversed down to depth 5.
DepthLimitReached ==
    /\ pc = "done" /\ traversalResult # None
    /\ traversalResult.callDepth = 5
    /\ TraversalNode(6) \notin traversalResult.impactedNodeIds
    /\ \E i \in 1..Len(simInput.domainRelations) :
          /\ simInput.domainRelations[i].type = "USES"
          /\ simInput.domainRelations[i].to \notin traversalResult.impactedNodeIds
    /\ \E i \in 1..Len(simInput.domainRelations) :
          simInput.domainRelations[i].to = traversalRoot

\* Every identifier has been put on the queue at most once so far, and what
\* is on the queue are distinct identifiers already marked visited.
EnqueuedAtMostOnce ==
    traversal # None =>
        /\ \A i, j \in 1..Len(traversal.order) :
              traversal.order[i] = traversal.order[j] => i = j
        /\ \A i, j \in 1..Len(traversal.queue) :
              traversal.queue[i].id = traversal.queue[j].id => i = j
        /\ \A i \in 1..Len(traversal.queue) :
              traversal.queue[i].id \in traversal.visited

\* C24: on every finite relation graph, cycles and self-loops included, the
\* traversal loop of impactedSubgraph and getCallDepth enqueues every
\* identifier at most once and its queue eventually empties, so that the
\* call returns.
TraversalTerminates ==
    [](EnqueuedAtMostOnce) /\ <>(pc = "done" /\ traversal.queue = <<>>)

\* A traversal over a graph with a cycle through its root and a self-loop
\* has returned.
CyclicGraphTraversed ==
    /\ pc = "done" /\ traversalResult # None
    /\ traversal.queue = <<>>
    /\ \E i \in 1..Len(simInput.domainRelations) :
          /\ simInput.domainRelations[i].to = traversalRoot
          /\ simInput.domainRelations[i].from # traversalRoot
          /\ simInput.domainRelations[i].from \in traversalResult.impactedNodeIds
    /\ \E i \in 1..Len(simInput.domainRelations) :
          /\ simInput.domainRelations[i].to = simInput.domainRelations[i].from
          /\ simInput.domainRelations[i].from \in traversalResult.impactedNodeIds

\* The impacted set of the simulation: the identifiers within five steps of
\* the root node plus the injected <Entity> and <Entity>.<method>.
ImpactedSet ==
    LET rule == simulation.rootRule
    IN  WithinDistance(simInput.domainRelations, resolveRootNode(rule), 5)
        \cup (IF rule.entity # <<>> THEN {rule.entity} ELSE {})
        \cup (IF rule.entity # <<>> /\ rule.method # <<>>
              THEN {rule.entity \o <<".">> \o rule.method} ELSE {})

\* An identifier with a path separator or a source extension at its end.
LooksLikePath(v) ==
    \/ \E i \in 1..Len(v) : v[i] \in {"/", "\\"}
    \/ (v # <<>> /\ v[Len(v)] \in {".ts", ".tsx"})

\* C23 as stated: explanation.affectedFiles is the number of file-like
\* identifiers of the impacted set, nothing outside that set being counted.
AffectedFilesWithinImpacted ==
    simulation # None =>
        simulation.explanation.affectedFiles
            = Cardinality({v \in ImpactedSet : LooksLikePath(v)})

\* C23: explanation.affectedFiles is the number of identifiers that are
\* file-like members of the impacted set or the non-empty file path of the
\* root rule, which is counted whether or not it is in the impacted set.
AffectedFilesCountRuleFile ==
    simulation # None =>
        simulation.explanation.affectedFiles
            = Cardinality({v \in ImpactedSet : LooksLikePath(v)} \cup
                          (IF simulation.rootRule.filePath # <<>>
                           THEN {simulation.rootRule.filePath} ELSE {}))

\* simulate has returned for a rule whose file is not in the impacted set
\* while a file-like identifier is.
RuleFileOutsideImpacted ==
    /\ simulation # None
    /\ simulation.rootRule.filePath # <<>>
    /\ simulation.rootRule.filePath \notin ImpactedSet
    /\ \E v \in ImpactedSet : LooksLikePath(v)
    /\ simulation.explanation.affectedFiles >= 2

\* The identifier begins with the name followed by a dot.
MemberOf(id, name) ==
    /\ Len(id) > Len(name)
    /\ SubSeq(id, 1, Len(name)) = name
    /\ id[Len(name) + 1] = "."

\* C25: analyze emits no ANEMIC_ENTITY violation, and every entity build
\* produced with a non-empty stateFields has a MODIFIES relation whose from
\* starts with the name of the entity and a dot.
NoAnemicEntity ==
    pc \in {"reported", "reported twice"} /\ domainModel # None =>
        /\ \A i \in 1..Len(violations) : violations[i].type # "ANEMIC_ENTITY"
        /\ \A i \in 1..Len(domainModel.entities) :
              domainModel.entities[i].stateFields # <<>> =>
                  \E k \in 1..Len(domainModel.relations) :
                      /\ domainModel.relations[k].type = "MODIFIES"
                      /\ MemberOf(domainModel.relations[k].from,
                                  domainModel.entities[i].name)

\* A project has been analysed in which one class is an entity with state
\* fields and another class, with a mutable property, is no entity.
EntityBesideStatelessClass ==
    /\ pc \in {"reported", "reported twice"} /\ domainModel # None
    /\ \E i \in 1..Len(domainModel.entities) :
          domainModel.entities[i].stateFields # <<>>
    /\ \E i \in 1..Len(project) :
          /\ \A k \in 1..Len(domainModel.entities) :
                domainModel.entities[k].name # project[i].name
          /\ \E j \in 1..Len(project[i].props) : ~project[i].props[j].readonly

\* The call expressions inside the method around node i.
CallsInMethodOf(ast, i) ==
    {c \in 1..Len(ast) :
        /\ ast[c].kind = "CallExpression"
        /\ getFirstAncestorByKind(ast, i, "MethodDeclaration") # 0
        /\ getFirstAncestorByKind(ast, c, "MethodDeclaration")
             = getFirstAncestorByKind(ast, i, "MethodDeclaration")}

RootNodeNamesCallerInEntity ==
    pc \in {"extracted", "done"} =>
        LET ast == Ast(project)
        IN  \A k \in 1..Len(rules) : \A i \in AnchorsOf(ast, k) :
                \A c \in CallsInMethodOf(ast, i) :
                    rules[k].entity # <<>> =>
                        resolveRootNode(rules[k]) = fromForCall(ast, c)

\* The identifiers at either end of a relation of the simulated graph.
ProjectNodeIds ==
    UNION {{simInput.domainRelations[i].from, simInput.domainRelations[i].to} :
              i \in 1..Len(simInput.domainRelations)}

\* The largest number of distinct targets of the outgoing relations of one
\* identifier, and 1 at least.
ProjectMaxFanOut ==
    LET targets(id) == {simInput.domainRelations[i].to :
                           i \in {x \in 1..Len(simInput.domainRelations) :
                                     simInput.domainRelations[x].from = id}}
    IN  IntMax(1, CHOOSE m \in 0..Len(simInput.domainRelations) :
                      /\ \A id \in ProjectNodeIds : Cardinality(targets(id)) <= m
                      /\ (m = 0 \/ \E id \in ProjectNodeIds :
                                       Cardinality(targets(id)) = m))

\* C27: for every rule whose root node appears in the relation graph,
\* explanation.fanOut is at most the project-wide maxFanOut, so the normalized
\* fan-out is fanOut / maxFanOut without being clamped.
FanOutWithinMaxFanOut ==
    simulation # None /\ resolveRootNode(simulation.rootRule) \in ProjectNodeIds =>
        /\ simulation.explanation.fanOut <= ProjectMaxFanOut
        /\ normalize(simulation.explanation.fanOut, ProjectMaxFanOut)
             = Rat(simulation.explanation.fanOut, ProjectMaxFanOut)

\* C28: within one result of analyze no two violations have the same id,
\* one domain callable calling several infrastructure targets and one domain
\* file importing several infrastructure modules included.
ViolationIdsUnique ==
    pc = "done" =>
        \A i, j \in 1..Len(violations) :
            violations[i].id = violations[j].id => i = j

\* The same for the violations other than DOMAIN_CALLING_INFRA and
\* LAYER_VIOLATION.
OtherViolationIdsUnique ==
    pc = "done" =>
        \A i, j \in 1..Len(violations) :
            /\ violations[i].type \notin {"DOMAIN_CALLING_INFRA", "LAYER_VIOLATION"}
            /\ violations[i].id = violations[j].id
            => i = j

\* The rules extract pushes before its dedup, one per classified AST node.
ClassifiedRules ==
    collectRules(Ast(project), domainModel.semanticNodes,
                 MapFromEntries(
                     [k \in 1..Len(domainModel.entities) |->
                         <<domainModel.entities[k].name,
                           domainModel.entities[k]>>],
                     EmptyMap))

\* C29: two different classified AST nodes never get the same rule id, so
\* every classified node is represented in the output of extract by a rule
\* with the span and text of that node.
EveryClassifiedNodeKept ==
    pc \in {"extracted", "done"} =>
        \A p \in Range(ClassifiedRules) :
            \E k \in 1..Len(rules) :
                /\ rules[k].id = p.id
                /\ rules[k].astLocation = p.astLocation
                /\ rules[k].condition = p.condition

\* The same for the rules anchored at an if statement.
EveryClassifiedIfKept ==
    pc \in {"extracted", "done"} =>
        \A p \in Range(ClassifiedRules) :
            p.type \in {"INVARIANT", "POLICY", "CONTEXT_RESTRICTION"} =>
                \E k \in 1..Len(rules) :
                    /\ rules[k].id = p.id
                    /\ rules[k].astLocation = p.astLocation

\* The files of the tree whose path below the project root has no segment
\* of the exclusion set, under their absolute paths.
FilesToKeep ==
    LET kept == SelectSeq(fileSystem.files,
                          LAMBDA f : \A i \in 1..Len(f.file) :
                              f.file[i] \notin {"node_modules", "dist", "build",
                                                ".next", ".git", "coverage"})
    IN  [k \in 1..Len(kept) |->
            fileSystem.projectPath \o <<"/">> \o kept[k].file]

\* C30: parseProject returns exactly the loaded files whose path below the
\* project root has no excluded segment; no file is dropped because of a
\* directory name in the path of the project root itself.
ParsedFilesAreFilesToKeep ==
    pc \in {"reported", "reported twice"} /\ fileSystem.rootExists =>
        [k \in 1..Len(project) |-> project[k].file] = FilesToKeep

\* The same for the project roots without an excluded segment.
ParsedFilesAreFilesToKeepPlainRoot ==
    /\ pc \in {"reported", "reported twice"}
    /\ fileSystem.rootExists
    /\ \A i \in 1..Len(fileSystem.projectPath) :
          fileSystem.projectPath[i] \notin DEFAULT_EXCLUDED_DIRS
    => [k \in 1..Len(project) |-> project[k].file] = FilesToKeep

====
